---- MODULE Spec2Model ----
(***************************************************************************)
(* Model of the object database core (tv/lib/database.py), the parts of    *)
(* the SQL storage backend it drives (tv/lib/storedatabase.py) and the     *)
(* dispatcher-side view tracker (tv/lib/messagehandler.py).                *)
(*                                                                         *)
(* The database world is one record; every method of the code is an        *)
(* operator from a record to the record after the call, so that nested     *)
(* synchronous calls (signal_change -> update_obj -> check_object -> emit) *)
(* compose the way they do in the code.                                    *)
(***************************************************************************)
EXTENDS Integers, Sequences, FiniteSets, TLC

VARIABLES db, mh, gh, dl, ls, app

vars == <<db, mh, gh, dl, ls, app>>

\* ------------------------------------------------------------------ bounds
\* Number of object ids DDBObject.lastID may hand out / the store may hold.
MaxId == 2
\* BulkSQLManager._update_view_trackers switches strategy at 100 changed
\* objects; the switch point is scaled down so that both strategies run
\* within MaxId objects.
StrategyThreshold == 2
\* BulkSQLManager.commit gives up after this many rounds.
CommitRounds == 100

Ids == 1..MaxId
Vals == {0, 1}
Fields == {"a", "b"}

\* An object of class Item has the tracked fields a and b; an object of class
\* PlaylistItemMap ("pim") refers to an item.  The same shapes are the rows.
NoObj == [k |-> "none"]
NoRow == [k |-> "none"]
ItemObjs == [k : {"item"}, a : Vals, b : Vals]
PimObjs == [k : {"pim"}, item_id : Ids]

EmptyDict == << >>

RECURSIVE SortedSeq(_)
SortedSeq(S) ==
    IF S = {} THEN << >>
    ELSE LET m == CHOOSE x \in S : \A y \in S : x <= y
         IN <<m>> \o SortedSeq(S \ {m})

RECURSIVE SeqRemove(_, _)
\* list.remove(x): drops the first occurrence
SeqRemove(s, x) ==
    IF s = << >> THEN << >>
    ELSE IF Head(s) = x THEN Tail(s)
    ELSE <<Head(s)>> \o SeqRemove(Tail(s), x)

Range(s) == {s[i] : i \in DOMAIN s}

\* ------------------------------------------------------------ views (SQL)
\* "t1": Item.make_view('a = ?', (1,))
\* "t2": Item.make_view('pim.item_id IS NOT NULL',
\*                      joins={'pim': 'item.id = pim.item_id'})
Views == {"t1", "t2"}

InView(rows, v, id) ==
    /\ rows[id].k = "item"
    /\ v = "t1" => rows[id].a = 1
    /\ v = "t2" => \E j \in Ids : rows[j].k = "pim" /\ rows[j].item_id = id

query_ids(rows, v) == {id \in Ids : InView(rows, v, id)}

\* ------------------------------------------------------- LiveStorage ops
id_alive(D, id) == id \in D.object_map

\* The instance being registered is the one constructed last for this id:
\* D.made[id] counts the instances constructed with the id, D.inst[id] is the
\* number of the one the identity map holds (0: none).
remember_object(D, id) ==
    [D EXCEPT !.object_map = @ \cup {id}, !.inst[id] = D.made[id]]

forget_object(D, id) ==
    [D EXCEPT !.object_map = @ \ {id}, !.inst[id] = 0]

insert_obj(D, id) ==
    [D EXCEPT !.rows[id] = D.mem[id], !.dirty[id] = {}]

RECURSIVE bulk_insert(_, _)
bulk_insert(D, objects) ==
    IF objects = << >> THEN D
    ELSE bulk_insert(insert_obj(D, Head(objects)), Tail(objects))

\* UPDATE ... SET <dirty columns> WHERE id = ?; a rowcount of 0 is a KeyError
UpdatedRow(row, obj, dirty) ==
    [f \in DOMAIN row |-> IF f \in dirty THEN obj[f] ELSE row[f]]

update_obj_keeps_changed(D, id) ==
    LET dirty == D.dirty[id]
    IN IF dirty = {} THEN D
       ELSE IF D.rows[id] = NoRow THEN [D EXCEPT !.err = "KeyError"]
       ELSE [D EXCEPT !.rows[id] = UpdatedRow(D.rows[id], D.mem[id], dirty)]

update_obj(D, id) ==
    LET dirty == D.dirty[id]
        D1 == [D EXCEPT !.dirty[id] = {}]
    IN IF dirty = {} THEN D1
       ELSE IF D.rows[id] = NoRow THEN [D1 EXCEPT !.err = "KeyError"]
       ELSE [D1 EXCEPT !.rows[id] = UpdatedRow(D.rows[id], D.mem[id], dirty)]

remove_obj(D, id) == forget_object([D EXCEPT !.rows[id] = NoRow], id)

RECURSIVE bulk_remove(_, _)
bulk_remove(D, objects) ==
    IF objects = << >> THEN D
    ELSE bulk_remove(remove_obj(D, Head(objects)), Tail(objects))

\* --------------------------------------------- database.ViewTracker ops
\* Every signal a tracker emits is appended to D.ev; the action that made the
\* call hands the signals to whoever is connected (the dispatcher-side
\* tracker is connected to "t1").  D.self_added observes the ids reported
\* 'added' after they removed themselves in their constructor.
emit(D, t, sig, id) ==
    [D EXCEPT !.ev = Append(@, [t |-> t, sig |-> sig, id |-> id]),
              !.self_added = IF sig = "added" /\ id \in D.self_removed
                             THEN @ \cup {id} ELSE @]

RECURSIVE _emit_for_objects(_, _, _, _)
_emit_for_objects(D, t, sig, objects) ==
    IF objects = << >> THEN D
    ELSE _emit_for_objects(emit(D, t, sig, Head(objects)), t, sig,
                           Tail(objects))

_obj_in_view(D, t, id) == InView(D.rows, t, id)

_view_object_ids(D, t) == query_ids(D.rows, t)

remove_object(D, t, id) ==
    IF id \in D.cur[t]
    THEN emit([D EXCEPT !.cur[t] = @ \ {id}], t, "removed", id)
    ELSE D

RECURSIVE remove_objects(_, _, _)
remove_objects(D, t, objects) ==
    IF objects = << >> THEN D
    ELSE remove_objects(remove_object(D, t, Head(objects)), t, Tail(objects))

check_object(D, t, id) ==
    LET before == id \in D.cur[t]
        now == _obj_in_view(D, t, id)
    IN IF before /\ ~now
       THEN emit([D EXCEPT !.cur[t] = @ \ {id}], t, "removed", id)
       ELSE IF now /\ ~before
       THEN emit([D EXCEPT !.cur[t] = @ \cup {id}], t, "added", id)
       ELSE IF before /\ now
       THEN emit(D, t, "changed", id)
       ELSE D

object_changed(D, t, id) == check_object(D, t, id)

\* ---------------------------------------------------- ViewTrackerManager
klass(D, id) == D.mem[id].k

\* trackers_for_table: both views are views of the item table
trackers_for_table(D, table) == IF table = "item" THEN D.linked ELSE {}

update_view_trackers(D, id) ==
    LET ts == trackers_for_table(D, klass(D, id))
        D1 == IF "t1" \in ts THEN object_changed(D, "t1", id) ELSE D
    IN IF "t2" \in ts THEN object_changed(D1, "t2", id) ELSE D1

remove_from_view_trackers(D, id) ==
    LET ts == trackers_for_table(D, klass(D, id))
        D1 == IF "t1" \in ts THEN remove_object(D, "t1", id) ELSE D
    IN IF "t2" \in ts THEN remove_object(D1, "t2", id) ELSE D1

bulk_remove_from_view_trackers(D, table, objects) ==
    LET ts == trackers_for_table(D, table)
        D1 == IF "t1" \in ts THEN remove_objects(D, "t1", objects) ELSE D
    IN IF "t2" \in ts THEN remove_objects(D1, "t2", objects) ELSE D1

\* ------------------------------------------------------- BulkSQLManager
DictGet(d, key) == IF key \in DOMAIN d THEN d[key] ELSE << >>

DictSet(d, key, val) == [t \in DOMAIN d \cup {key} |-> IF t = key THEN val ELSE d[t]]

add_insert(D, id) ==
    LET table == klass(D, id)
    IN [D EXCEPT !.to_insert = DictSet(@, table, Append(DictGet(@, table), id)),
                 !.pending_inserts = @ \cup {id}]

will_insert(D, id) == id \in D.pending_inserts

will_remove(D, id) == id \in D.pending_removes

add_remove(D, id) ==
    LET table == klass(D, id)
    IN IF will_insert(D, id)
       THEN forget_object(
              [D EXCEPT !.to_insert = DictSet(@, table, SeqRemove(DictGet(@, table), id)),
                        !.pending_inserts = @ \ {id}], id)
       ELSE [D EXCEPT !.to_remove = DictSet(@, table, Append(DictGet(@, table), id)),
                      !.pending_removes = @ \cup {id}]

\* ------------------------------------------------------------ DDBObject
\* DDBObject.removed_from_db: self.emit('removed')
removed_from_db(D, id) == [D EXCEPT !.sig_removed = @ \cup {id}]

\* check_constraints and on_db_insert are empty hooks in DDBObject
inserted_into_db(D, id) == D

\* get_by_id finds the instance in the identity map, else the row in storage
id_exists(D, id) == id \in D.object_map \/ D.rows[id] # NoRow

remove(D, id) ==
    LET D0 == [D EXCEPT !.removed_called = @ \cup {id}]
    IN IF ~D0.active
       THEN remove_from_view_trackers(removed_from_db(remove_obj(D0, id), id), id)
       ELSE add_remove(D0, id)

_insert_into_db(D, id) ==
    IF ~D.active
    THEN update_view_trackers(inserted_into_db(insert_obj(D, id), id), id)
    ELSE add_insert(D, id)

\* DDBObject.__init__ with restored_data: the row's values become the
\* instance's fields, then setup_restored() runs, which calls remove() for
\* the classes whose restored objects discard themselves.
RestoreObject(D, id) ==
    LET D1 == remember_object([D EXCEPT !.mem[id] = D.rows[id], !.dirty[id] = {},
                                        !.made[id] = @ + 1], id)
    IN IF D.restore_removes
       THEN remove([D1 EXCEPT !.self_removed = @ \cup {id}], id)
       ELSE D1

\* DDBObject.__init__ for a new object: setup_new() assigns the fields o and,
\* when selfRemove, calls remove() on the object under construction.
NewObject(D, o, selfRemove) ==
    LET id == D.lastID + 1
        D1 == remember_object(
                [D EXCEPT !.lastID = id, !.mem[id] = o,
                          !.dirty[id] = DOMAIN o \ {"k"},
                          !.made[id] = @ + 1], id)
        D2 == IF selfRemove
              THEN remove([D1 EXCEPT !.self_removed = @ \cup {id}], id)
              ELSE D1
    IN IF ~id_exists(D2, id) THEN D2 ELSE _insert_into_db(D2, id)

\* AttributeUpdateTracker.__set__
SetAttribute(D, id, name, value) ==
    [D EXCEPT !.dirty[id] = IF D.mem[id][name] # value THEN @ \cup {name} ELSE @,
              !.mem[id][name] = value]

signal_change(D, id, needs_save) ==
    IF ~id_exists(D, id) THEN [D EXCEPT !.err = "DatabaseConstraintError"]
    ELSE IF will_insert(D, id) THEN D
    ELSE update_view_trackers(IF needs_save THEN update_obj(D, id) ELSE D, id)

\* --------------------------------------------------- DDBObjectFetcher
RECURSIVE _restore_objects(_, _)
_restore_objects(D, id_set) ==
    IF id_set = {} THEN D
    ELSE LET id == CHOOSE x \in id_set : \A y \in id_set : x <= y
         IN _restore_objects(
              IF D.rows[id].k = "item" THEN RestoreObject(D, id) ELSE D,
              id_set \ {id})

\* the filter of prepare_objects: the ids still alive after the restores
AliveIds(D1, id_list) ==
    [D |-> D1, ids |-> SelectSeq(id_list, LAMBDA i : id_alive(D1, i))]

prepare_objects_restores_all(D, id_list) ==
    AliveIds(_restore_objects(D, Range(id_list)), id_list)

\* ensure_objects_loaded + the filter of prepare_objects; the result is the
\* database after the restores and the id list as it was left in place
prepare_objects(D, id_list) ==
    IF Range(id_list) \ D.object_map = {} THEN [D |-> D, ids |-> id_list]
    ELSE AliveIds(_restore_objects(D, Range(id_list) \ D.object_map), id_list)

\* DDBObject.get_by_id for the class cls: memory first, then the singleton of
\* cls.make_view('id=?', (id,)).  obj is the number of the instance returned,
\* 0 when ObjectNotFoundError is raised.
get_singleton(P, id) ==
    [D |-> P.D, obj |-> IF Len(P.ids) = 1 THEN P.D.inst[id] ELSE 0]

get_by_id(D, cls, id) ==
    IF id \in D.object_map
    THEN [D |-> D, obj |-> IF D.mem[id].k = cls THEN D.inst[id] ELSE 0]
    ELSE get_singleton(
           prepare_objects(D, SortedSeq({i \in {id} : D.rows[i].k = cls})),
           id)

\* ------------------------------------ ViewTracker: whole-table refresh
\* the two emits of _update_current_ids, P1 and P2 being the prepared
\* added and removed objects
EmitAddedRemoved(P1, P2, t, new_ids) ==
    _emit_for_objects(
        _emit_for_objects([P2.D EXCEPT !.cur[t] = new_ids], t, "added", P1.ids),
        t, "removed", P2.ids)

PrepareRemoved(P1, removed_ids, t, new_ids) ==
    EmitAddedRemoved(P1, prepare_objects(P1.D, removed_ids), t, new_ids)

_update_current_ids(D, t, new_ids) ==
    IF new_ids = D.cur[t] THEN D
    ELSE PrepareRemoved(prepare_objects(D, SortedSeq(new_ids \ D.cur[t])),
                        SortedSeq(D.cur[t] \ new_ids), t, new_ids)

\* the 'changed' emit of check_all_objects for the prepared objects P
EmitChanged(P, t) == _emit_for_objects(P.D, t, "changed", P.ids)

PrepareChanged(D1, old_ids, t) ==
    EmitChanged(prepare_objects(D1, SortedSeq(old_ids \cap D1.cur[t])), t)

check_all_objects(D, t) ==
    PrepareChanged(_update_current_ids(D, t, _view_object_ids(D, t)),
                   D.cur[t], t)

CheckAllSecond(D1, ts) ==
    IF "t2" \in ts THEN check_all_objects(D1, "t2") ELSE D1

bulk_update_view_trackers(D, table) ==
    CheckAllSecond(IF "t1" \in trackers_for_table(D, table)
                   THEN check_all_objects(D, "t1") ELSE D,
                   trackers_for_table(D, table))

\* ------------------------------------------------ BulkSQLManager.commit
Tables == <<"item", "pim">>

RECURSIVE EachInserted(_, _)
EachInserted(D, objects) ==
    IF objects = << >> THEN D
    ELSE EachInserted(inserted_into_db(D, Head(objects)), Tail(objects))

RECURSIVE EachRemoved(_, _)
EachRemoved(D, objects) ==
    IF objects = << >> THEN D
    ELSE EachRemoved(removed_from_db(D, Head(objects)), Tail(objects))

RECURSIVE InsertTables(_, _, _)
InsertTables(D, to_insert, tables) ==
    IF tables = << >> THEN D
    ELSE LET objects == DictGet(to_insert, Head(tables))
         IN InsertTables(EachInserted(bulk_insert(D, objects), objects),
                         to_insert, Tail(tables))

RECURSIVE RemoveTables(_, _, _)
RemoveTables(D, to_remove, tables) ==
    IF tables = << >> THEN D
    ELSE LET objects == DictGet(to_remove, Head(tables))
         IN RemoveTables(EachRemoved(bulk_remove(D, objects), objects),
                         to_remove, Tail(tables))

_commit_sql(D, to_insert, to_remove) ==
    RemoveTables(InsertTables(D, to_insert, Tables), to_remove, Tables)

RECURSIVE EachChanged(_, _)
EachChanged(D, objects) ==
    IF objects = << >> THEN D
    ELSE EachChanged(update_view_trackers(D, Head(objects)), Tail(objects))

_update_view_trackers_by_object(D, changed_objs) ==
    EachChanged(D, SortedSeq(changed_objs))

RECURSIVE UpdateInsertedTables(_, _, _)
UpdateInsertedTables(D, to_insert, tables) ==
    IF tables = << >> THEN D
    ELSE UpdateInsertedTables(
           IF Head(tables) \in DOMAIN to_insert
           THEN bulk_update_view_trackers(D, Head(tables)) ELSE D,
           to_insert, Tail(tables))

RECURSIVE UpdateRemovedTables(_, _, _, _)
UpdateRemovedTables(D, to_insert, to_remove, tables) ==
    IF tables = << >> THEN D
    ELSE UpdateRemovedTables(
           IF Head(tables) \in DOMAIN to_remove /\ Head(tables) \notin DOMAIN to_insert
           THEN bulk_remove_from_view_trackers(D, Head(tables), to_remove[Head(tables)])
           ELSE D,
           to_insert, to_remove, Tail(tables))

_update_view_trackers_by_table(D, to_insert, to_remove) ==
    UpdateRemovedTables(UpdateInsertedTables(D, to_insert, Tables),
                        to_insert, to_remove, Tables)

DictValues(d) == UNION {Range(d[t]) : t \in DOMAIN d}

_update_view_trackers(D, to_insert, to_remove) ==
    LET changed_objs == DictValues(to_insert) \cup DictValues(to_remove)
    IN IF Cardinality(changed_objs) < StrategyThreshold
       THEN _update_view_trackers_by_object(D, changed_objs)
       ELSE _update_view_trackers_by_table(D, to_insert, to_remove)

RECURSIVE CommitRound(_, _)
\* the loop test of commit: D2 is the database after one round
CommitAgain(D2, x) ==
    IF DOMAIN D2.to_insert = {} /\ DOMAIN D2.to_remove = {}
    THEN D2
    ELSE CommitRound(D2, x + 1)

CommitRound(D, x) ==
    IF x >= CommitRounds THEN [D EXCEPT !.err = "AssertionError"]
    ELSE CommitAgain(
           _update_view_trackers(
               _commit_sql([D EXCEPT !.to_insert = EmptyDict,
                                     !.to_remove = EmptyDict],
                           D.to_insert, D.to_remove),
               D.to_insert, D.to_remove),
           x)

commit(D) ==
    IF CommitRound(D, 0).err = "AssertionError" THEN CommitRound(D, 0)
    ELSE [CommitRound(D, 0) EXCEPT
              !.to_insert = EmptyDict, !.to_remove = EmptyDict,
              !.pending_inserts = {}, !.pending_removes = {}]

start(D) == [D EXCEPT !.active = TRUE]

finish(D) == [commit(D) EXCEPT !.active = FALSE]

\* ============================================ messagehandler.ViewTracker
\* The dispatcher-side tracker M watches the database tracker "t1".  Its
\* buffers hold references to the tracked instances; a reference is the id
\* of the instance, and info_factory reads the instance's fields when the
\* message is built.
\*
\* Observation fields of M (not state of the code): hist (what was reported
\* for each id since the buffers were last sent), flushes (the send_messages
\* calls of the last step) and forced (on_object_added has called
\* send_messages since the queue of urgent calls was last empty).
MaxQueue == 2
MaxAddedOrder == 2

info_factory(D, id) == [id |-> id, b |-> D.mem[id].b]

Restrict(f, S) == [x \in S |-> f[x]]

reset_changes(M) ==
    [M EXCEPT !.changed = {}, !.removed = {}, !.added = {},
              !.added_order = << >>, !.changes_pending = FALSE]

_get_added_objects(M) == SelectSeq(M.added_order, LAMBDA id : id \in M.added)

SeqIds(s) == {s[i].id : i \in DOMAIN s}

RECURSIVE InfoSeq(_, _)
InfoSeq(D, objs) ==
    IF objs = << >> THEN << >>
    ELSE <<info_factory(D, Head(objs))>> \o InfoSeq(D, Tail(objs))

\* _make_new_info for every object of the list: remembers what was sent
_make_added_list(M, D, objs) ==
    [M EXCEPT !.last_sent_info =
        [x \in DOMAIN @ \cup Range(objs) |->
            IF x \in Range(objs) THEN info_factory(D, x) ELSE @[x]]]

\* the infos _make_changed_list returns: those that differ from what was sent
ChangedInfos(M, D) ==
    SelectSeq(InfoSeq(D, SortedSeq(M.changed)),
              LAMBDA info : \/ info.id \notin DOMAIN M.last_sent_info
                            \/ info # M.last_sent_info[info.id])

_make_changed_list(M, D) ==
    LET infos == ChangedInfos(M, D)
    IN [M EXCEPT !.last_sent_info =
          [x \in DOMAIN @ \cup SeqIds(infos) |->
              IF x \in SeqIds(infos) THEN info_factory(D, x) ELSE @[x]]]

_make_removed_list(M) ==
    IF M.removed \subseteq DOMAIN M.last_sent_info
    THEN [M EXCEPT !.last_sent_info = Restrict(@, DOMAIN @ \ M.removed)]
    ELSE [M EXCEPT !.err = "KeyError"]

\* message.send_to_frontend() for a change message
send_to_frontend(M, msg) ==
    M

send_messages(M, D) ==
    LET added == InfoSeq(D, _get_added_objects(M))
        M1 == _make_added_list(M, D, _get_added_objects(M))
        changed == ChangedInfos(M1, D)
        M2 == _make_changed_list(M1, D)
        removed == SortedSeq(M.removed)
        M3 == _make_removed_list(M2)
        msg == [kind |-> "changed", added |-> added, changed |-> changed,
                removed |-> removed]
        nonempty == added # << >> \/ changed # << >> \/ removed # << >>
        M4 == IF nonempty THEN send_to_frontend(M3, msg) ELSE M3
    IN [reset_changes(M4) EXCEPT
           !.flushes = Append(@, [hist |-> M.hist, msg |-> msg, sent |-> nonempty]),
           !.hist = [i \in Ids |-> "none"]]

schedule_send_messages_always(M) ==
    [M EXCEPT !.queue = @ + 1, !.changes_pending = TRUE]

schedule_send_messages(M) ==
    IF ~M.changes_pending
    THEN [M EXCEPT !.queue = @ + 1, !.changes_pending = TRUE]
    ELSE M

HistAdded(h) == IF h \in {"none", "ar"} THEN "a" ELSE "x"
HistChanged(h) ==
    IF h \in {"a", "ac"} THEN "ac" ELSE IF h \in {"none", "c"} THEN "c" ELSE "x"
HistRemoved(h) ==
    IF h \in {"a", "ac"} THEN "ar" ELSE IF h = "c" THEN "cr"
    ELSE IF h = "none" THEN "r" ELSE "x"

on_object_added(M, D, id) ==
    IF M.tabs_being_reordered
    THEN _make_added_list(M, D, <<id>>)
    ELSE LET M1 == IF id \in M.removed
                   THEN [send_messages(M, D) EXCEPT !.forced = TRUE]
                   ELSE M
             M2 == [M1 EXCEPT !.added = @ \cup {id},
                              !.added_order = Append(@, id),
                              !.hist[id] = HistAdded(@)]
         IN schedule_send_messages(M2)

on_object_id_removed_buffers_all(M, id) ==
    IF M.tabs_being_reordered
    THEN IF id \in DOMAIN M.last_sent_info
         THEN [M EXCEPT !.last_sent_info = Restrict(@, DOMAIN @ \ {id})]
         ELSE [M EXCEPT !.err = "KeyError"]
    ELSE schedule_send_messages(
            [M EXCEPT !.removed = @ \cup {id}, !.hist[id] = HistRemoved(@)])

on_object_id_removed_keeps_changed(M, id) ==
    IF M.tabs_being_reordered
    THEN IF id \in DOMAIN M.last_sent_info
         THEN [M EXCEPT !.last_sent_info = Restrict(@, DOMAIN @ \ {id})]
         ELSE [M EXCEPT !.err = "KeyError"]
    ELSE LET M1 == IF id \in M.added
                   THEN [M EXCEPT !.added = @ \ {id}]
                   ELSE [M EXCEPT !.removed = @ \cup {id}]
         IN schedule_send_messages([M1 EXCEPT !.hist[id] = HistRemoved(@)])

on_object_id_removed(M, id) ==
    IF M.tabs_being_reordered
    THEN IF id \in DOMAIN M.last_sent_info
         THEN [M EXCEPT !.last_sent_info = Restrict(@, DOMAIN @ \ {id})]
         ELSE [M EXCEPT !.err = "KeyError"]
    ELSE LET M1 == IF id \in M.added
                   THEN [M EXCEPT !.added = @ \ {id}]
                   ELSE IF id \in M.changed
                   THEN [M EXCEPT !.changed = @ \ {id}, !.removed = @ \cup {id}]
                   ELSE [M EXCEPT !.removed = @ \cup {id}]
         IN schedule_send_messages([M1 EXCEPT !.hist[id] = HistRemoved(@)])

on_object_changed_moves(M, id) ==
    schedule_send_messages(
        [M EXCEPT !.added = @ \ {id}, !.changed = @ \cup {id},
                  !.hist[id] = HistChanged(@)])

on_object_changed(M, id) ==
    LET M1 == IF id \in M.added
              THEN M
              ELSE [M EXCEPT !.changed = @ \cup {id}]
    IN schedule_send_messages([M1 EXCEPT !.hist[id] = HistChanged(@)])

\* the callbacks connected in add_callbacks, run for the signals of one call
RECURSIVE Deliver(_, _, _)
Deliver(M, D, ev) ==
    IF ev = << >> THEN M
    ELSE LET e == Head(ev)
             M1 == IF e.t # "t1" THEN M
                   ELSE IF e.sig = "added" THEN on_object_added(M, D, e.id)
                   ELSE IF e.sig = "removed" THEN on_object_id_removed(M, e.id)
                   ELSE on_object_changed(M, e.id)
         IN Deliver(M1, D, Tail(ev))

\* send_initial_list: the list message names every object of the view
send_initial_list(M, D, objs) == _make_added_list(M, D, objs)

\* ViewTracker.unlink: the database trackers leave the manager
unlink(D) == [D EXCEPT !.linked = @ \ {"t1"}]

\* View.make_tracker: a database tracker whose ids are the view's ids now
make_tracker(D, t) ==
    [D EXCEPT !.linked = @ \cup {t}, !.cur[t] = query_ids(D.rows, t)]

\* ================================================= dl_daemon/download.py
\* The download daemon.  A state L of the daemon is a record: objs are the
\* downloader objects alive, by object number; _downloads maps a dlid to the
\* object registered for it (0: none); torrents and info_hash_to_downloader
\* are the fields of TORRENT_SESSION; FRD_PROBLEMS is the class attribute of
\* BTDownloader; sent are the commands sent to the main process by the call
\* being made; env are the answers of the disk and of the engine to that call.
MaxInst == 2

MaxDlid == 2

\* the length of a base32 info-hash, scaled down from 32 characters; a hash
\* has 5 * B32Len bits and its hexadecimal form HexLen digits
B32Len == 4

MaxPolls == 2

MaxSize == 2

MaxFails == 9

MaxDesc == 1

Insts == 1..MaxInst

Dlids == 1..MaxDlid

HexLen == (5 * B32Len + 3) \div 4

RECURSIVE Pow(_, _)
Pow(b, n) == IF n = 0 THEN 1 ELSE b * Pow(b, n - 1)

\* the info-hashes of the torrents offered: their base32 and hexadecimal
\* forms differ digit by digit
HashA == Pow(32, B32Len - 1) + 1

HashB == Pow(32, B32Len) - 1

Hashes == {HashA, HashB}

\* a string of digits, most significant first
Digits(v, base, n) == [k \in 1..n |-> (v \div Pow(base, n - k)) % base]

RECURSIVE FromDigits(_, _)
FromDigits(ds, base) ==
    IF ds = << >> THEN 0
    ELSE FromDigits(SubSeq(ds, 1, Len(ds) - 1), base) * base + ds[Len(ds)]

RECURSIVE b32decode(_)
b32decode(s) ==
    IF s = << >> THEN << >> ELSE Digits(Head(s), 2, 5) \o b32decode(Tail(s))

b16encode(bits) ==
    LET pad == (4 - (Len(bits) % 4)) % 4
        padded == [k \in 1..pad |-> 0] \o bits
    IN [k \in 1..(Len(padded) \div 4) |->
           FromDigits(SubSeq(padded, 4 * k - 3, 4 * k), 2)]

\* str(torrent.info_hash()): the hexadecimal form of a torrent's hash
hex_str(hash) == Digits(hash, 16, HexLen)

\* util.info_hash_from_magnet: the hash as the magnet link spells it
info_hash_from_magnet(magnet) ==
    IF magnet.enc = "b32" THEN Digits(magnet.hash, 32, B32Len)
    ELSE hex_str(magnet.hash)

info_hash_to_long(info_hash) == FromDigits(info_hash, 16)

RETRY_TIMES == <<60, 5 * 60, 10 * 60, 30 * 60, 60 * 60, 2 * 60 * 60,
                 6 * 60 * 60, 24 * 60 * 60>>

FRD_PROBLEMS_LIMIT == 5

NoMagnet == [enc |-> "none", hash |-> 0]

NoDl == [kind |-> "none"]

\* env: there is disk space for the download (space); the engine accepts the
\* torrent (lt_ok); write_resume_data succeeds (frd_ok); FRD_UPDATE_LIMIT
\* seconds have passed since the last fast-resume write (frd_due); the
\* torrent file of a file:// URL can be opened (file_ok); the upload ratio
\* is over the limit (ratio)
DefaultEnv == [space |-> TRUE, lt_ok |-> TRUE, frd_ok |-> TRUE,
               frd_due |-> FALSE, file_ok |-> TRUE, ratio |-> FALSE]

DictGet0(d, k) == IF k \in DOMAIN d THEN d[k] ELSE 0

DictPut(d, k, v) == [x \in DOMAIN d \cup {k} |-> IF x = k THEN v ELSE d[x]]

DictDel(d, k) == [x \in DOMAIN d \ {k} |-> d[x]]

\* BGDownloader.__init__ and the fields the two subclasses add
BGDownloader(kind, url, dlid, hash, magnet) ==
    [kind |-> kind, url |-> url, dlid |-> dlid,
     state |-> "downloading", currentSize |-> 0,
     retryCount |-> -1, retryDC |-> FALSE, retryTime |-> 0, fails |-> 0,
     client |-> FALSE, headers |-> FALSE, resumed |-> FALSE, polls |-> 0,
     restartOnError |-> FALSE, file |-> 0,
     metainfo |-> "none", torrent |-> FALSE, restarting |-> FALSE,
     info_hash |-> FALSE, magnet |-> magnet, hash |-> hash,
     get_delayed_metainfo |-> FALSE, has_metadata |-> FALSE,
     firstTime |-> TRUE, description_clients |-> 0, seeding |-> FALSE]

Send(L, c) == [L EXCEPT !.sent = Append(@, c)]

SetState(L, i, s) == [L EXCEPT !.objs[i].state = s]

\* ----------------------------------------------------------- TorrentSession
find_duplicate_torrent(L, hash) ==
    DictGet0(L.info_hash_to_downloader, info_hash_to_long(hex_str(hash)))

MagnetHex_no_base32(info_hash) == info_hash

MagnetHex(info_hash) ==
    IF Len(info_hash) = B32Len THEN b16encode(b32decode(info_hash))
    ELSE info_hash

find_duplicate_torrent_from_magnet(L, magnet) ==
    DictGet0(L.info_hash_to_downloader,
             info_hash_to_long(MagnetHex(info_hash_from_magnet(magnet))))

add_torrent(L, i) ==
    [L EXCEPT !.torrents = @ \cup {i},
              !.info_hash_to_downloader =
                  DictPut(@, info_hash_to_long(hex_str(L.objs[i].hash)), i)]

\* raised: the del statement raised KeyError
remove_torrent(L, i) ==
    IF i \notin L.torrents THEN L
    ELSE IF info_hash_to_long(hex_str(L.objs[i].hash))
               \in DOMAIN L.info_hash_to_downloader
    THEN [L EXCEPT !.torrents = @ \ {i},
                   !.info_hash_to_downloader =
                       DictDel(@, info_hash_to_long(hex_str(L.objs[i].hash)))]
    ELSE [L EXCEPT !.torrents = @ \ {i}, !.raised = TRUE]

\* ------------------------------------------------------------- BTDownloader
\* frd records what the calls of this step did: "gate" (returned because of
\* FRD_PROBLEMS), "fail" or "ok" (write_resume_data was called), with the
\* failures of the session so far (frd_fails) and those since the last
\* successful write (frd_row)
FrdDid(L, did) ==
    [L EXCEPT !.frd = Append(@, [did |-> did, fails |-> L.frd_fails,
                                 row |-> L.frd_row]),
              !.frd_fails = IF did = "fail" THEN @ + 1 ELSE @,
              !.frd_row = IF did = "fail" THEN @ + 1
                          ELSE IF did = "ok" THEN 0 ELSE @]

update_fast_resume_data_counts_in_a_row(L, i, force) ==
    IF ~L.objs[i].torrent \/ ~L.objs[i].has_metadata \/ ~L.objs[i].info_hash
    THEN L
    ELSE IF L.FRD_PROBLEMS >= FRD_PROBLEMS_LIMIT THEN FrdDid(L, "gate")
    ELSE IF ~force /\ ~L.env.frd_due THEN L
    ELSE IF ~L.env.frd_ok
    THEN [FrdDid(L, "fail") EXCEPT !.FRD_PROBLEMS = @ + 1]
    ELSE [FrdDid(L, "ok") EXCEPT !.FRD_PROBLEMS = 0]

update_fast_resume_data(L, i, force) ==
    IF ~L.objs[i].torrent \/ ~L.objs[i].has_metadata \/ ~L.objs[i].info_hash
    THEN L
    ELSE IF L.FRD_PROBLEMS >= FRD_PROBLEMS_LIMIT THEN FrdDid(L, "gate")
    ELSE IF ~force /\ ~L.env.frd_due THEN L
    ELSE IF ~L.env.frd_ok
    THEN [FrdDid(L, "fail") EXCEPT !.FRD_PROBLEMS = @ + 1]
    ELSE FrdDid(L, "ok")

ShutdownHandle(L, i) ==
    IF L.raised THEN [L EXCEPT !.raised = FALSE]
    ELSE IF L.objs[i].torrent
    THEN [update_fast_resume_data(L, i, TRUE) EXCEPT
              !.objs[i].torrent = FALSE, !.objs[i].has_metadata = FALSE,
              !.objs[i].seeding = FALSE]
    ELSE L

_shutdown_torrent(L, i) == ShutdownHandle(remove_torrent(L, i), i)

_pause_torrent(L, i) == [remove_torrent(L, i) EXCEPT !.raised = FALSE]

BG_handle_error(L, i) == SetState(L, i, "failed")

RetryIndex_wraps(retryCount) ==
    IF retryCount + 1 >= Len(RETRY_TIMES) THEN 0 ELSE retryCount + 1

RetryIndex(retryCount) ==
    IF retryCount + 1 >= Len(RETRY_TIMES) THEN Len(RETRY_TIMES) - 1
    ELSE retryCount + 1

\* RETRY_TIMES is indexed from 0; fails counts the calls since the downloader
\* was made or a permanent error reset retryCount
BG_handle_temporary_error(L, i) ==
    [SetState(L, i, "offline") EXCEPT
         !.objs[i].retryCount = RetryIndex(@),
         !.objs[i].retryDC = TRUE,
         !.objs[i].retryTime =
             RETRY_TIMES[RetryIndex(L.objs[i].retryCount) + 1],
         !.objs[i].fails = IF @ < MaxFails THEN @ + 1 ELSE @]

BT_handle_error(L, i) == BG_handle_error(_shutdown_torrent(L, i), i)

BT_handle_temporary_error(L, i) ==
    BG_handle_temporary_error(_shutdown_torrent(L, i), i)

\* the engine refuses a torrent it already holds (duplicate_is_error)
EngineHolds(L, i) ==
    \E j \in Insts \ {i} :
        /\ L.objs[j].kind = "bt"
        /\ L.objs[j].torrent
        /\ L.objs[j].hash = L.objs[i].hash

DuplicateOf(L, i) ==
    IF L.objs[i].magnet.enc # "none"
    THEN find_duplicate_torrent_from_magnet(L, L.objs[i].magnet)
    ELSE find_duplicate_torrent(L, L.objs[i].hash)

AddToEngine(L, i) ==
    IF L.objs[i].firstTime /\ ~L.env.space THEN BT_handle_error(L, i)
    ELSE IF EngineHolds(L, i) \/ ~L.env.lt_ok THEN BT_handle_error(L, i)
    ELSE add_torrent([L EXCEPT !.objs[i].torrent = TRUE,
                               !.objs[i].info_hash = TRUE,
                               !.objs[i].has_metadata =
                                   L.objs[i].magnet.enc = "none"], i)

StartOrReport(L, i, duplicate) ==
    IF duplicate # 0
    THEN Send(L, [cmd |-> "DuplicateTorrent",
                  original |-> L.objs[duplicate].dlid,
                  duplicate |-> L.objs[i].dlid])
    ELSE AddToEngine(L, i)

\* tried: the torrents this step tried to start, each with the dlids of the
\* session's torrents that have its info-hash
Tried(L, i) ==
    [L EXCEPT !.tried =
         Append(@, [obj |-> i, dlid |-> L.objs[i].dlid,
                    enc |-> L.objs[i].magnet.enc,
                    active |-> {L.objs[j].dlid :
                                   j \in {k \in L.torrents \ {i} :
                                             L.objs[k].hash = L.objs[i].hash}}])]

_start_torrent(L, i) == StartOrReport(Tried(L, i), i, DuplicateOf(L, i))

_resume_torrent(L, i) ==
    IF ~L.objs[i].torrent THEN _start_torrent(L, i) ELSE add_torrent(L, i)

handle_corrupt_torrent(L, i) == BT_handle_error(L, i)

got_metainfo(L, i) ==
    IF ~L.objs[i].restarting /\ L.objs[i].metainfo = "bad"
    THEN handle_corrupt_torrent(L, i)
    ELSE _resume_torrent(L, i)

handle_metainfo(L, i, metainfo) ==
    got_metainfo([L EXCEPT !.objs[i].metainfo = metainfo], i)

get_metainfo(L, i) ==
    IF L.objs[i].magnet.enc # "none"
    THEN _resume_torrent([L EXCEPT !.objs[i].get_delayed_metainfo = TRUE], i)
    ELSE IF L.objs[i].metainfo = "none"
    THEN IF L.objs[i].url = "file"
         THEN IF L.env.file_ok THEN handle_metainfo(L, i, "ok")
              ELSE BT_handle_error(L, i)
         ELSE [L EXCEPT !.objs[i].description_clients = @ + 1]
    ELSE got_metainfo(L, i)

run_downloader(L, i, done) ==
    get_metainfo([L EXCEPT !.objs[i].restarting = done], i)

BT_start_unguarded(L, i) ==
    get_metainfo([SetState(L, i, "downloading") EXCEPT
                      !.objs[i].retryDC = FALSE], i)

BT_start(L, i) ==
    IF L.objs[i].state \notin {"paused", "stopped", "offline"} THEN L
    ELSE get_metainfo([SetState(L, i, "downloading") EXCEPT
                           !.objs[i].retryDC = FALSE], i)

BT_pause(L, i) ==
    _pause_torrent([SetState(L, i, "paused") EXCEPT
                        !.objs[i].restarting = TRUE], i)

BT_stop(L, i) == _shutdown_torrent(SetState(L, i, "stopped"), i)

BT_stop_upload(L, i) == _shutdown_torrent(SetState(L, i, "finished"), i)

BT_pause_upload(L, i) ==
    _shutdown_torrent(SetState(L, i, "uploading-paused"), i)

BT_move_to_directory(L, i) ==
    IF L.objs[i].state \in {"uploading", "downloading"}
    THEN _resume_torrent(_shutdown_torrent(L, i), i)
    ELSE L

StatusSeeding(L, i) ==
    IF L.objs[i].state = "downloading" /\ L.objs[i].seeding
    THEN SetState(BT_move_to_directory(L, i), i, "uploading")
    ELSE L

StatusRatio(L, i) ==
    IF L.objs[i].seeding /\ L.env.ratio THEN BT_stop_upload(L, i) ELSE L

\* self.torrent.has_metadata() raises AttributeError when the torrent was
\* shut down by the lines before it
StatusMetadata(L, i) ==
    IF ~L.objs[i].get_delayed_metainfo THEN L
    ELSE IF ~L.objs[i].torrent THEN [L EXCEPT !.raised = TRUE]
    ELSE IF L.objs[i].has_metadata
    THEN [L EXCEPT !.objs[i].get_delayed_metainfo = FALSE]
    ELSE L

StatusResume(L, i) ==
    IF L.raised THEN L ELSE update_fast_resume_data(L, i, FALSE)

update_status(L, i) ==
    StatusResume(StatusMetadata(StatusRatio(StatusSeeding(L, i), i), i), i)

RECURSIVE UpdateEach(_, _)
UpdateEach(L, todo) ==
    IF todo = << >> THEN L
    ELSE IF L.raised THEN L
    ELSE UpdateEach(update_status(L, Head(todo)), Tail(todo))

update_torrents(L) ==
    [UpdateEach(L, SortedSeq(L.torrents)) EXCEPT !.raised = FALSE]

\* ----------------------------------------------------------- HTTPDownloader
\* file is the size of the partial file (-1: there is none); polls counts the
\* update_stats timeouts pending; the client has seen the response headers
\* (headers) and was started with resume (resumed)
update_stats(L, i) ==
    IF ~L.objs[i].client \/ L.objs[i].state # "downloading" THEN L
    ELSE [L EXCEPT !.objs[i].currentSize =
                       IF L.objs[i].headers THEN L.objs[i].file ELSE @,
                   !.objs[i].polls = @ + 1]

destroy_client(L, i) ==
    [update_stats(L, i) EXCEPT !.objs[i].client = FALSE,
                               !.objs[i].headers = FALSE,
                               !.objs[i].resumed = FALSE]

cancel_request(L, i, remove_file) ==
    IF L.objs[i].client
    THEN [destroy_client(L, i) EXCEPT
              !.objs[i].file = IF remove_file THEN -1 ELSE @,
              !.objs[i].retryDC = FALSE]
    ELSE [L EXCEPT !.objs[i].retryDC = FALSE]

\* started: what start_download found and did, for the call of this step
GrabUrl(L, i, asked, resume, size_before) ==
    update_stats(
        [L EXCEPT !.objs[i].client = TRUE,
                  !.objs[i].headers = FALSE,
                  !.objs[i].resumed = resume,
                  !.objs[i].file = IF resume THEN @ ELSE 0,
                  !.started = Append(@, [obj |-> i, asked |-> asked,
                                         resume |-> resume,
                                         size_before |-> size_before,
                                         currentSize |-> L.objs[i].currentSize,
                                         size |-> L.objs[i].file])], i)

_resume_sanity_check_no_truncate(L, i) ==
    IF L.objs[i].file = -1 THEN [L |-> L, resume |-> FALSE]
    ELSE IF L.objs[i].file < L.objs[i].currentSize
    THEN [L |-> L, resume |-> FALSE]
    ELSE [L |-> L, resume |-> TRUE]

_resume_sanity_check(L, i) ==
    IF L.objs[i].file = -1 THEN [L |-> L, resume |-> FALSE]
    ELSE IF L.objs[i].file > L.objs[i].currentSize
    THEN [L |-> [L EXCEPT !.objs[i].file = L.objs[i].currentSize],
          resume |-> TRUE]
    ELSE IF L.objs[i].file < L.objs[i].currentSize
    THEN [L |-> L, resume |-> FALSE]
    ELSE [L |-> L, resume |-> TRUE]

GrabChecked(R, i, size_before) == GrabUrl(R.L, i, TRUE, R.resume, size_before)

HTTP_start_download(L, i, resume) ==
    IF resume
    THEN GrabChecked(_resume_sanity_check([L EXCEPT !.objs[i].retryDC = FALSE],
                                          i), i, L.objs[i].file)
    ELSE GrabUrl([L EXCEPT !.objs[i].retryDC = FALSE], i, FALSE, FALSE,
                 L.objs[i].file)

start_new_download(L, i) ==
    HTTP_start_download([L EXCEPT !.objs[i].currentSize = 0], i, FALSE)

HTTP_handle_error(L, i) ==
    [cancel_request(BG_handle_error(L, i), i, FALSE) EXCEPT
         !.objs[i].file = -1, !.objs[i].currentSize = 0]

HTTP_handle_temporary_error(L, i) ==
    BG_handle_temporary_error(cancel_request(L, i, FALSE), i)

handle_error(L, i) ==
    IF L.objs[i].kind = "http" THEN HTTP_handle_error(L, i)
    ELSE BT_handle_error(L, i)

handle_temporary_error(L, i) ==
    IF L.objs[i].kind = "http" THEN HTTP_handle_temporary_error(L, i)
    ELSE BT_handle_temporary_error(L, i)

\* error: "permanent" for the errors handle_network_error lists, "temporary"
\* for the other network errors
handle_network_error(L, i, error) ==
    IF error = "permanent"
    THEN [handle_error(L, i) EXCEPT !.objs[i].retryCount = -1,
                                    !.objs[i].fails = 0]
    ELSE handle_temporary_error(L, i)

on_headers(L, i) ==
    IF ~L.env.space THEN HTTP_handle_error([L EXCEPT !.objs[i].headers = TRUE],
                                           i)
    ELSE [L EXCEPT !.objs[i].headers = TRUE,
                   !.objs[i].restartOnError = FALSE]

HTTP_stop(L, i, delete) ==
    IF L.objs[i].state = "finished"
    THEN [SetState(L, i, "stopped") EXCEPT
              !.objs[i].file = IF delete THEN -1 ELSE @,
              !.objs[i].currentSize = 0]
    ELSE [SetState(cancel_request(L, i, TRUE), i, "stopped") EXCEPT
              !.objs[i].currentSize = 0]

HTTP_pause(L, i) ==
    IF L.objs[i].state # "stopped"
    THEN SetState(cancel_request(L, i, FALSE), i, "paused")
    ELSE L

HTTP_start(L, i, resume) ==
    IF L.objs[i].state \in {"paused", "stopped", "offline"}
    THEN HTTP_start_download(SetState(L, i, "downloading"), i, resume)
    ELSE L

on_download_error(L, i, error) ==
    IF error = "ResumeFailed" THEN start_new_download(L, i)
    ELSE IF error = "AuthorizationCanceled"
    THEN HTTP_stop(destroy_client(L, i), i, FALSE)
    ELSE IF L.objs[i].restartOnError
    THEN HTTP_start_download([L EXCEPT !.objs[i].restartOnError = FALSE],
                             i, TRUE)
    ELSE handle_network_error(destroy_client(L, i), i, error)

FinishedOrEmpty(L, i) ==
    IF L.objs[i].currentSize = 0
    THEN handle_network_error(L, i, "temporary")
    ELSE L

on_download_finished(L, i) ==
    FinishedOrEmpty(SetState(destroy_client(L, i), i, "finished"), i)

\* ------------------------------------------------- the daemon's functions
DL_start(L, i, resume) ==
    IF L.objs[i].kind = "http" THEN HTTP_start(L, i, resume)
    ELSE BT_start(L, i)

retry_download(L, i) == DL_start([L EXCEPT !.objs[i].retryDC = FALSE], i, FALSE)

DL_pause(L, i) ==
    IF L.objs[i].kind = "http" THEN HTTP_pause(L, i) ELSE BT_pause(L, i)

DL_stop(L, i, delete) ==
    IF L.objs[i].kind = "http" THEN HTTP_stop(L, i, delete)
    ELSE BT_stop(L, i)

\* a downloader is made as object n; what: [kind, url, hash, magnet]
HTTPDownloader(L, n, dlid) ==
    HTTP_start_download(
        [L EXCEPT !.objs[n] =
             BGDownloader("http", "http", dlid, 0, NoMagnet)], n, TRUE)

BTDownloader(L, n, url, dlid, hash, magnet) ==
    run_downloader(
        [L EXCEPT !.objs[n] = BGDownloader("bt", url, dlid, hash, magnet)],
        n, FALSE)

create_downloader(L, n, what, dlid) ==
    IF what.kind = "bt"
    THEN BTDownloader(L, n, what.url, dlid, what.hash, NoMagnet)
    ELSE IF what.kind = "magnet"
    THEN BTDownloader(L, n, "none", dlid, what.hash,
                      [enc |-> what.enc, hash |-> what.hash])
    ELSE HTTPDownloader(L, n, dlid)

start_download_always_creates(L, what, dlid, n) ==
    [create_downloader(L, n, what, dlid) EXCEPT !._downloads[dlid] = n]

start_download(L, what, dlid, n) ==
    IF L._downloads[dlid] # 0 THEN DL_start(L, L._downloads[dlid], TRUE)
    ELSE [create_downloader(L, n, what, dlid) EXCEPT !._downloads[dlid] = n]

pause_download(L, dlid) ==
    IF L._downloads[dlid] = 0 THEN L ELSE DL_pause(L, L._downloads[dlid])

stop_download(L, dlid, delete) ==
    IF L._downloads[dlid] = 0 THEN L
    ELSE DL_stop([L EXCEPT !._downloads[dlid] = 0], L._downloads[dlid], delete)

stop_upload(L, dlid) ==
    IF L._downloads[dlid] = 0 THEN L
    ELSE IF L.objs[L._downloads[dlid]].state
               \notin {"uploading", "uploading-paused"} THEN L
    ELSE IF L.objs[L._downloads[dlid]].kind = "http"
    THEN [L EXCEPT !._downloads[dlid] = 0]
    ELSE BT_stop_upload([L EXCEPT !._downloads[dlid] = 0], L._downloads[dlid])

pause_upload(L, dlid) ==
    IF L._downloads[dlid] = 0 THEN L
    ELSE IF L.objs[L._downloads[dlid]].state # "uploading" THEN L
    ELSE BT_pause_upload([L EXCEPT !._downloads[dlid] = 0],
                         L._downloads[dlid])

migrate_download(L, dlid) ==
    IF L._downloads[dlid] = 0 THEN L
    ELSE IF L.objs[L._downloads[dlid]].state
               \notin {"finished", "uploading", "uploading-paused"} THEN L
    ELSE IF L.objs[L._downloads[dlid]].kind = "http" THEN L
    ELSE BT_move_to_directory(L, L._downloads[dlid])

\* restore_downloader: data is the status the downloader was saved with
RestoredObj(data) ==
    [BGDownloader(data.kind, data.url, data.dlid, data.hash, data.magnet)
        EXCEPT !.state = data.state, !.currentSize = data.currentSize,
               !.file = data.file, !.retryCount = data.retryCount,
               !.fails = data.retryCount + 1,
               !.metainfo = data.metainfo, !.info_hash = data.kind = "bt",
               !.restartOnError = data.kind = "http",
               !.firstTime = FALSE]

HTTP_restore(L, n) ==
    IF L.objs[n].state = "downloading" THEN HTTP_start_download(L, n, TRUE)
    ELSE IF L.objs[n].state = "offline" THEN HTTP_start(L, n, TRUE)
    ELSE L

restore_state(L, n) ==
    IF L.objs[n].state \in {"downloading", "uploading"}
    THEN run_downloader(L, n, TRUE)
    ELSE IF L.objs[n].state = "offline" THEN BT_start(L, n)
    ELSE L

Restored(L, n, dlid) ==
    [(IF L.objs[n].kind = "http" THEN HTTP_restore(L, n)
      ELSE restore_state(L, n)) EXCEPT !._downloads[dlid] = n]

restore_downloader(L, data, n) ==
    IF L._downloads[data.dlid] # 0 THEN L
    ELSE Restored([L EXCEPT !.objs[n] = RestoredObj(data)], n, data.dlid)

\* ============================================ storedatabase.LiveStorage
\* The transaction of LiveStorage.  A state S is a record: buf is
\* _statements_in_transaction; in_tx and tx are the transaction of the
\* SQLite connection and the statements executed in it; committed counts the
\* statements committed; select is _current_select_statement (<< >>: None);
\* quitting is _quitting_from_operational_error.  ran, reruns and failed
\* describe the call being made: the statements the last rerun executed, the
\* number of reruns, and the statement that failed.
MaxStatements == 3

MaxRounds == 2

Sqls == {"INSERT", "UPDATE"}

SelectSql == "SELECT"

InitLS ==
    [buf |-> << >>, in_tx |-> FALSE, tx |-> << >>, committed |-> 0,
     select |-> << >>, quitting |-> FALSE,
     ran |-> << >>, reruns |-> 0, failed |-> << >>]

NoStorage == [buf |-> << >>]

\* what the user answers to the save-error dialog and where the rerun that
\* follows fails (0: nowhere)
Rounds == UNION {[1..n -> [choice : {"retry", "quit"},
                           fail_at : 0..(MaxStatements + 1)]] :
                    n \in 0..MaxRounds}

Begin_transaction(S) == [S EXCEPT !.in_tx = TRUE, !.tx = << >>]

\* ROLLBACK TRANSACTION: an error when there is no transaction is ignored
Rollback(S) == [S EXCEPT !.in_tx = FALSE, !.tx = << >>]

\* a statement is executed: an update takes effect in the transaction, or at
\* once when there is none
Executed(S, sql) ==
    IF sql = SelectSql THEN S
    ELSE IF S.in_tx THEN [S EXCEPT !.tx = Append(@, sql)]
    ELSE [S EXCEPT !.committed = @ + 1]

to_run_without_failed(S) ==
    IF S.select = << >> THEN SubSeq(S.buf, 1, Len(S.buf) - 1) ELSE S.buf

to_run(S) == S.buf \o S.select

RECURSIVE RunAll(_, _, _, _)
RunAll(S, todo, k, fail_at) ==
    IF todo = << >> THEN [S |-> S, ok |-> TRUE]
    ELSE IF k = fail_at THEN [S |-> S, ok |-> FALSE]
    ELSE RunAll([Executed(S, Head(todo)) EXCEPT !.ran = Append(@, Head(todo))],
                Tail(todo), k + 1, fail_at)

_try_rerunning_transaction(S, fail_at) ==
    RunAll([(IF S.buf # << >> THEN Begin_transaction(S) ELSE S)
               EXCEPT !.ran = << >>, !.reruns = @ + 1],
           to_run(S), 1, fail_at)

\* stuck: the answers given do not end the loop
RECURSIVE HandleRounds(_, _)
Rerun(R, rounds) ==
    IF R.ok THEN [S |-> R.S, stuck |-> rounds # << >>]
    ELSE HandleRounds(R.S, rounds)

HandleRounds(S, rounds) ==
    IF rounds = << >> THEN [S |-> S, stuck |-> TRUE]
    ELSE IF Head(rounds).choice = "quit"
    THEN [S |-> [Rollback(S) EXCEPT !.quitting = TRUE],
          stuck |-> Tail(rounds) # << >>]
    ELSE Rerun(_try_rerunning_transaction(Rollback(S), Head(rounds).fail_at),
               Tail(rounds))

_handle_operational_error(S, rounds) ==
    IF S.quitting THEN [S |-> S, stuck |-> rounds # << >>]
    ELSE HandleRounds(S, rounds)

\* auto: SQLite has rolled the transaction back itself when the statement
\* failed
Failed(S, sql, is_update, auto, rounds) ==
    _handle_operational_error(
        [(IF auto THEN Rollback(S) ELSE S) EXCEPT
             !.select = IF is_update THEN << >> ELSE <<sql>>,
             !.failed = <<sql>>],
        rounds)

TimeExecute(S, sql, is_update, ok, auto, rounds) ==
    IF ok THEN [S |-> Executed(S, sql), stuck |-> rounds # << >>]
    ELSE Failed(S, sql, is_update, auto, rounds)

_execute(S, sql, is_update, ok, auto, rounds) ==
    IF is_update /\ S.quitting THEN [S |-> S, stuck |-> rounds # << >> \/ ~ok]
    ELSE IF is_update
    THEN TimeExecute(
             [(IF S.buf = << >> THEN Begin_transaction(S) ELSE S)
                 EXCEPT !.buf = Append(@, sql)],
             sql, is_update, ok, auto, rounds)
    ELSE TimeExecute(S, sql, is_update, ok, auto, rounds)

finish_transaction(S, do_commit) ==
    IF S.buf = << >> THEN S
    ELSE IF S.quitting THEN [S EXCEPT !.buf = << >>]
    ELSE IF do_commit
    THEN [S EXCEPT !.committed = (@ + Len(S.tx)) % (MaxStatements + 1),
                   !.in_tx = FALSE,
                   !.tx = << >>, !.buf = << >>]
    ELSE [Rollback(S) EXCEPT !.buf = << >>]

\* the daemon as it starts
\* scope: what the main process asks the daemon to download (whats), for
\* which ids (dlids), what it restores (restores), how many transient
\* errors the network produces for a downloader (fails), and whether the
\* engine can fail to write fast-resume data (frd)
NoFire == [obj |-> 0, polls |-> 0]

InitDL(scope) ==
    [objs |-> [i \in Insts |-> NoDl],
     _downloads |-> [d \in Dlids |-> 0],
     torrents |-> {},
     info_hash_to_downloader |-> << >>,
     FRD_PROBLEMS |-> 0,
     frd |-> << >>, frd_row |-> 0, frd_fails |-> 0,
     sent |-> << >>, tried |-> << >>, started |-> << >>, trans |-> {}, fired |-> NoFire,
     raised |-> FALSE,
     env |-> DefaultEnv,
     scope |-> scope]

NoScope == [whats |-> {}, dlids |-> {}, restores |-> {}, fails |-> 0,
            frd |-> FALSE, watch |-> {}]

NoDaemon == InitDL(NoScope)



\* ================================= messagehandler.BackendMessageHandler
\* The commands of the frontend that name objects by id.  A state A holds
\* the domain objects (objs: NoObj where the object is gone), the two tab
\* orders, and what the last command did: warned (a warning was logged),
\* raised (the exception that left the handler), missing (the command named
\* an id with no object of the class asked for) and changed (a domain object
\* or a tab order is not what it was before the command).
Klasses ==
    <<"feed", "feed-folder", "playlist", "playlist-folder", "site", "item">>

ObjIds == 1..Len(Klasses)

\* the id of the object of a class
IdOf(cls) == CHOOSE i \in ObjIds : Klasses[i] = cls

TabTypes == {"feed", "playlist"}

child_class(info_type) == IF info_type = "feed" THEN "feed" ELSE "playlist"

folder_class_for_type(info_type) ==
    IF info_type = "feed" THEN "feed-folder" ELSE "playlist-folder"

ChildId(info_type) == IdOf(child_class(info_type))

FolderId(info_type) == IdOf(folder_class_for_type(info_type))

\* DDBObject.get_by_id raises ObjectNotFoundError
Exists(A, cls, id) == A.objs[id].k = cls

NoCall == [warned |-> FALSE, raised |-> "none", missing |-> FALSE,
           changed |-> FALSE]

Domain(A) == <<A.objs, A.feed_order, A.playlist_order>>

Warn(A) == [A EXCEPT !.call.warned = TRUE, !.call.missing = TRUE]

Raise(A, error, missing) ==
    [A EXCEPT !.call.raised = error,
              !.call.missing = @ \/ missing]

\* remove(): a folder goes with the tabs in it
RemoveObj(A, id) ==
    [A EXCEPT !.objs = [i \in ObjIds |->
                           IF i = id \/ ("folder" \in DOMAIN A.objs[i]
                                         /\ A.objs[i].folder = id)
                           THEN NoObj ELSE A.objs[i]],
              !.feed_order = SelectSeq(@, LAMBDA i :
                                 i # id /\ ~("folder" \in DOMAIN A.objs[i]
                                             /\ A.objs[i].folder = id)),
              !.playlist_order = SelectSeq(@, LAMBDA i :
                                 i # id /\ ~("folder" \in DOMAIN A.objs[i]
                                             /\ A.objs[i].folder = id))]

handle_delete_feed(A, id, is_folder) ==
    IF ~Exists(A, IF is_folder THEN "feed-folder" ELSE "feed", id)
    THEN Warn(A)
    ELSE RemoveObj(A, id)

handle_delete_playlist(A, id, is_folder) ==
    IF ~Exists(A, IF is_folder THEN "playlist-folder" ELSE "playlist", id)
    THEN Warn(A)
    ELSE RemoveObj(A, id)

handle_delete_site(A, id) ==
    IF ~Exists(A, "site", id) THEN Warn(A)
    ELSE IF A.objs[id].is_default THEN Raise(A, "ValueError", FALSE)
    ELSE RemoveObj(A, id)

handle_set_guide_visible(A, id, visible) ==
    IF ~Exists(A, "site", id) THEN Raise(A, "ObjectNotFoundError", TRUE)
    ELSE IF A.objs[id].store = "none" THEN A
    ELSE [A EXCEPT !.objs[id].store =
                       IF visible THEN "visible" ELSE "invisible"]

handle_start_upload(A, id) ==
    IF ~Exists(A, "item", id) THEN Warn(A)
    ELSE IF ~A.objs[id].torrent \/ A.objs[id].uploading
    THEN [A EXCEPT !.call.warned = TRUE]
    ELSE [A EXCEPT !.objs[id].uploading = TRUE]

\* the loop over info_list of _do_handle_tabs_reordered: the ids it appends
\* to order, a folder being followed by its children
RECURSIVE TabOrderOf(_, _, _)
TabOrderOf(info_list, children, info_type) ==
    IF info_list = << >> THEN << >>
    ELSE IF Head(info_list) = FolderId(info_type)
    THEN <<Head(info_list)>> \o children
             \o TabOrderOf(Tail(info_list), children, info_type)
    ELSE <<Head(info_list)>> \o TabOrderOf(Tail(info_list), children, info_type)

\* every get_by_id of the loop finds its object
AllFound(A, info_type, m) ==
    /\ \A k \in 1..Len(m.top) :
           Exists(A, IF m.top[k] = FolderId(info_type)
                     THEN folder_class_for_type(info_type)
                     ELSE child_class(info_type), m.top[k])
    /\ (\E k \in 1..Len(m.top) : m.top[k] = FolderId(info_type)) =>
           \A k \in 1..Len(m.children) :
               Exists(A, child_class(info_type), m.children[k])

\* the folder a tab of the message is given
NewFolder(info_type, m, id) ==
    IF \E k \in 1..Len(m.children) : m.children[k] = id
    THEN FolderId(info_type) ELSE 0

InMessage(info_type, m, id) ==
    \/ \E k \in 1..Len(m.top) :
           m.top[k] = id /\ id # FolderId(info_type)
    \/ /\ \E k \in 1..Len(m.top) : m.top[k] = FolderId(info_type)
       /\ \E k \in 1..Len(m.children) : m.children[k] = id

bulk_set_folders(A, info_type, m) ==
    [A EXCEPT !.objs = [i \in ObjIds |->
                           IF InMessage(info_type, m, i)
                           THEN [A.objs[i] EXCEPT
                                     !.folder = NewFolder(info_type, m, i)]
                           ELSE A.objs[i]]]

reorder(A, info_type, order) ==
    IF info_type = "feed" THEN [A EXCEPT !.feed_order = order]
    ELSE [A EXCEPT !.playlist_order = order]

ReorderType(A, info_type, m) ==
    IF ~AllFound(A, info_type, m)
    THEN Raise(A, "ObjectNotFoundError", TRUE)
    ELSE reorder(bulk_set_folders(A, info_type, m), info_type,
                 TabOrderOf(m.top, m.children, info_type))

\* toplevels.iteritems() gives the types in the order types
RECURSIVE _do_handle_tabs_reordered(_, _, _)
_do_handle_tabs_reordered(A, message, types) ==
    IF types = << >> \/ A.call.raised # "none" THEN A
    ELSE _do_handle_tabs_reordered(
             ReorderType(A, Head(types), message[Head(types)]),
             message, Tail(types))

handle_tabs_reordered(A, message, types) ==
    _do_handle_tabs_reordered(A, message, types)

\* ------------------------------------------ handle_playlist_reordered
\* A playlist P: kind is its class ("none": it is gone), items the ids of
\* its items in their order; call tells what the last PlaylistReordered did:
\* the ids it proposed, the items before it, whether it logged a warning and
\* whether it called reorder().
MaxItems == 3

ItemIds == 1..MaxItems

ToSet(s) == {s[k] : k \in 1..Len(s)}

NoRepeats(s) == \A j, k \in 1..Len(s) : s[j] = s[k] => j = k

IsPermutation(s, t) == Len(s) = Len(t) /\ ToSet(s) = ToSet(t) /\ NoRepeats(s)

IdLists == UNION {[1..n -> ItemIds] : n \in 0..MaxItems}

Orders(S) == {s \in IdLists : ToSet(s) = S /\ NoRepeats(s)}

NoReorder == [item_ids |-> << >>, before |-> << >>, warned |-> FALSE,
              reordered |-> FALSE]

\* SavedPlaylist.reorder and PlaylistFolder.reorder: given a list without
\* repeats the items take its order; given repeats, some order of the items
PlaylistReorder(P, item_ids, outcome) ==
    [P EXCEPT !.items = IF NoRepeats(item_ids) THEN item_ids ELSE outcome,
              !.call.reordered = TRUE]

handle_playlist_reordered(P, found, item_ids, outcome) ==
    IF ~found \/ P.kind = "none" THEN [P EXCEPT !.call.warned = TRUE]
    ELSE IF ToSet(P.items) # ToSet(item_ids)
    THEN [P EXCEPT !.call.warned = TRUE]
    ELSE PlaylistReorder(P, item_ids, outcome)

\* ============================================ moviedata.MovieDataUpdater
\* A state U of the updater and the items it is asked about: in_shutdown,
\* in_progress, the items (exists: id_exists()), and for each item what the
\* progress tracker is owed: due is the number of requests taken up minus
\* the number of path_processed calls, unanswered whether a request returned
\* without being taken up.
MaxMovies == 2

MovieIds == 1..MaxMovies

FileTypes == {"video", "audio", "other", "None"}

Durations == {"None", "-1", "1"}

MovieItems ==
    [exists : {TRUE}, file_type : FileTypes, duration : {"None"},
     has_drm : BOOLEAN, mdp_state : {"UNSEEN"}]

InitUpdater(items) ==
    [in_shutdown |-> FALSE, in_progress |-> {}, items |-> items,
     due |-> [i \in MovieIds |-> 0],
     unanswered |-> [i \in MovieIds |-> FALSE]]

_path_processed(U, i) == [U EXCEPT !.due[i] = @ - 1]

update_failed(U, i) ==
    IF ~U.items[i].exists THEN [U EXCEPT !.in_progress = @ \ {i}]
    ELSE [U EXCEPT !.in_progress = @ \ {i},
                   !.items[i].mdp_state = "FAILED",
                   !.items[i].file_type =
                       IF U.items[i].has_drm THEN "other" ELSE @]

HasDrmAfter(item, duration) ==
    IF duration # "None" /\ duration # "-1" THEN FALSE ELSE item.has_drm

update_finished(U, i, duration, mediatype) ==
    IF ~U.items[i].exists THEN [U EXCEPT !.in_progress = @ \ {i}]
    ELSE [U EXCEPT
             !.in_progress = @ \ {i},
             !.items[i].mdp_state = "RAN",
             !.items[i].duration = IF duration # "None" THEN duration ELSE @,
             !.items[i].has_drm = HasDrmAfter(U.items[i], duration),
             !.items[i].file_type =
                 IF HasDrmAfter(U.items[i], duration) THEN "other"
                 ELSE IF mediatype # "None" THEN mediatype ELSE @]

update_skipped(U, i) == [U EXCEPT !.items[i].mdp_state = "SKIPPED"]

errback_without_notice(U, i) == update_failed(U, i)

errback(U, i) == _path_processed(update_failed(U, i), i)

\* flv: the path of the item ends in .flv
callback(U, i, mediatype, duration, flv) ==
    _path_processed(
        update_finished(U, i, duration, IF flv THEN "video" ELSE mediatype),
        i)

_should_process_item(item) ==
    IF item.has_drm THEN TRUE
    ELSE \/ item.file_type = "video"
         \/ item.file_type = "audio" /\ item.duration = "None"
         \/ item.file_type = "None"

request_update(U, i) ==
    IF U.in_shutdown \/ i \in U.in_progress
    THEN [U EXCEPT !.unanswered[i] = TRUE]
    ELSE IF _should_process_item(U.items[i])
    THEN [U EXCEPT !.in_progress = @ \cup {i}, !.due[i] = @ + 1]
    ELSE _path_processed([update_skipped(U, i) EXCEPT !.due[i] = @ + 1], i)

shutdown(U) == [U EXCEPT !.in_shutdown = TRUE]

\* ======================================================== commandline
\* An argument is a record: wrapped (it begins with file://), scheme (the
\* prefix that follows, "" when there is none), ext (the extension as
\* written), exists (os.path.exists), torrent (what get_torrent_info_hash
\* does with the file) and n (its place among the arguments that arrived).
\* A state C of the module: _started_up, _command_line_args, arrived (every
\* argument passed in, in order) and acted (what was done, in order: the
\* argument, the action and whether the action touches the library).
Schemes ==
    {"", "miro:", "democracy:", "http:", "https:", "feed:", "feeds:",
     "magnet:"}

Exts ==
    {".torrent", ".tor", ".rss", ".rdf", ".atom", ".ato", ".miro",
     ".democracy", ".dem", ".opml", ".avi", ".TORRENT", ""}

\* str.lower() of the extension
Lower(ext) == IF ext = ".TORRENT" THEN ".torrent" ELSE ext

InitCommandLine ==
    [_started_up |-> FALSE, _command_line_args |-> << >>,
     arrived |-> << >>, acted |-> << >>]

Act(C, arg, action, mutates) ==
    [C EXCEPT !.acted = Append(@, [arg |-> arg, action |-> action,
                                   mutates |-> mutates])]

\* the try block around get_torrent_info_hash, then add_torrent
TorrentFile(C, arg) ==
    IF arg.torrent = "ValueError" THEN Act(C, arg, "Invalid Torrent", FALSE)
    ELSE IF arg.torrent = "IOError" THEN Act(C, arg, "File Error", FALSE)
    ELSE Act(C, arg, "add_torrent", TRUE)

ExistingFile_extension_as_written(C, arg) ==
    IF arg.ext \in {".torrent", ".tor"} THEN TorrentFile(C, arg)
    ELSE IF arg.ext \in {".rss", ".rdf", ".atom", ".ato"}
    THEN Act(C, arg, "add_feed_from_file", TRUE)
    ELSE IF arg.ext \in {".miro", ".democracy", ".dem", ".opml"}
    THEN Act(C, arg, "import_subscriptions", TRUE)
    ELSE Act(C, arg, "add_video", TRUE)

ExistingFile(C, arg) ==
    IF Lower(arg.ext) \in {".torrent", ".tor"} THEN TorrentFile(C, arg)
    ELSE IF Lower(arg.ext) \in {".rss", ".rdf", ".atom", ".ato"}
    THEN Act(C, arg, "add_feed_from_file", TRUE)
    ELSE IF Lower(arg.ext) \in {".miro", ".democracy", ".dem", ".opml"}
    THEN Act(C, arg, "import_subscriptions", TRUE)
    ELSE Act(C, arg, "add_video", TRUE)

\* the body of the loop over args
ParseArg(C, arg) ==
    IF arg.wrapped THEN C
    ELSE IF arg.scheme \in {"miro:", "democracy:"}
    THEN Act(C, arg, "add_subscription_url", FALSE)
    ELSE IF arg.scheme \in {"http:", "https:", "feed:", "feeds:", "magnet:"}
    THEN Act(C, arg, "add_download", TRUE)
    ELSE IF arg.exists THEN ExistingFile(C, arg)
    ELSE Act(C, arg, "warning", FALSE)

RECURSIVE ParseArgs(_, _)
ParseArgs(C, args) ==
    IF args = << >> THEN C
    ELSE ParseArgs(ParseArg(C, Head(args)), Tail(args))

\* args[i] = args[i][len('file://'):]
Unwrap(args) == [k \in 1..Len(args) |-> [args[k] EXCEPT !.wrapped = FALSE]]

parse_command_line_args_acts_at_once(C, args) ==
    ParseArgs(C, Unwrap(args))

parse_command_line_args(C, args) ==
    IF ~C._started_up
    THEN [C EXCEPT !._command_line_args = @ \o args]
    ELSE ParseArgs(C, Unwrap(args))

set_command_line_args(C, args) ==
    [C EXCEPT !._command_line_args = @ \o args]

startup(C) ==
    [parse_command_line_args([C EXCEPT !._started_up = TRUE],
                             C._command_line_args)
        EXCEPT !._command_line_args = << >>]

\* ------------------------------------------ commandline: local videos
\* The library L: items is the list of the FileItem objects made (path,
\* deleted, and stored: the row of the item is in the database), bulk tells
\* whether a bulk-write scope is open (an item made inside it is stored when
\* the scope is closed), raised the exception that ended the last call.
\* in_memory: Item.have_item_for_path answers from the objects in memory, so
\* that it sees an item that is not stored yet; otherwise it answers from
\* the database, as items_with_path_view does.
MaxVideos == 3

MaxPaths == 2

RawPaths == {"a", "/cwd/a", "b", "/cwd/b", "/cwd/c"}

\* os.path.abspath, the working directory being /cwd
abspath(path) ==
    IF path = "a" THEN "/cwd/a" ELSE IF path = "b" THEN "/cwd/b" ELSE path

InitLibrary(in_memory) ==
    [items |-> << >>, bulk |-> FALSE, raised |-> "none",
     in_memory |-> in_memory]

have_item_for_path(L, path) ==
    \E k \in 1..Len(L.items) :
        /\ L.items[k].path = path
        /\ L.items[k].stored \/ L.in_memory

\* list(item.Item.items_with_path_view(path)): a query of the database
items_with_path_view(L, path) ==
    SelectSeq([k \in 1..Len(L.items) |-> k],
              LAMBDA k : L.items[k].path = path /\ L.items[k].stored)

make_undeleted(L, k) == [L EXCEPT !.items[k].deleted = FALSE]

FileItem(L, path) ==
    [L EXCEPT !.items = Append(@, [path |-> path, deleted |-> FALSE,
                                   stored |-> ~L.bulk])]

ExistingVideo(L, found) ==
    IF found = << >> THEN [L EXCEPT !.raised = "IndexError"]
    ELSE make_undeleted(L, found[1])

add_video(L, path) ==
    IF have_item_for_path(L, abspath(path))
    THEN ExistingVideo(L, items_with_path_view(L, abspath(path)))
    ELSE FileItem(L, abspath(path))

bulk_sql_manager_finish(L) ==
    [L EXCEPT !.bulk = FALSE,
              !.items = [k \in 1..Len(L.items) |->
                            [L.items[k] EXCEPT !.stored = TRUE]]]

\* the loop of _add_batch_of_videos: left paths are added before max_time
\* has elapsed
RECURSIVE BatchLoop(_, _, _)
BatchLoop(L, paths, left) ==
    IF paths = << >> \/ left = 0 \/ L.raised # "none"
    THEN [L |-> L, paths |-> paths]
    ELSE BatchLoop(add_video(L, Head(paths)), Tail(paths), left - 1)

BatchDone(R) == [L |-> bulk_sql_manager_finish(R.L), paths |-> R.paths]

_add_batch_of_videos(L, paths, left) ==
    BatchDone(BatchLoop([L EXCEPT !.bulk = TRUE], paths, left))

\* a batch takes at least one path; slice is the number of paths a batch
\* has the time for
RECURSIVE Batches(_, _)
Batches(R, slice) ==
    IF R.paths = << >> \/ R.L.raised # "none" THEN R.L
    ELSE Batches(_add_batch_of_videos(R.L, R.paths, slice), slice)

add_videos(L, paths, exists, slice) ==
    Batches([L |-> L,
             paths |-> SelectSeq(paths, LAMBDA p : abspath(p) \in exists)],
            slice)
\* ------------------------------------------------------- widgets/tablist.py
\* TabList: one widget model, the id -> row map, and the two reentrant
\* scopes.  `scopes` is the stack of `with` blocks the caller is inside of,
\* `log` what happened since the outermost scope was entered.
MaxDepth == 3
MaxLog == 7

TabNames == {"t1", "t2", "t3"}

InitTabList ==
    [_adding |-> 0, _removing |-> 0, iter_map |-> {}, model |-> {},
     scopes |-> << >>, log |-> << >>]

tab_emit(T, signal) == [T EXCEPT !.log = Append(@, signal)]

model_changed(T) == [T EXCEPT !.log = Append(@, "model_changed")]

Front(s) == SubSeq(s, 1, Len(s) - 1)

removing_enter(T) ==
    [T EXCEPT !._removing = @ + 1,
              !.scopes = Append(@, "removing"),
              !.log = Append(@, "removing")]

removing_exit(T) ==
    LET A == [T EXCEPT !._removing = @ - 1, !.scopes = Front(@)]
    IN  IF A._adding = 0 /\ A._removing = 0 THEN model_changed(A) ELSE A

adding_enter(T) ==
    [T EXCEPT !._adding = @ + 1,
              !.scopes = Append(@, "adding"),
              !.log = Append(@, "adding")]

adding_exit_always_emits(T) ==
    LET A == tab_emit([T EXCEPT !._adding = @ - 1, !.scopes = Front(@)],
                  "tab-added")
    IN  IF A._adding = 0 /\ A._removing = 0 THEN model_changed(A) ELSE A

adding_exit(T) ==
    LET A == [T EXCEPT !._adding = @ - 1, !.scopes = Front(@)]
        B == IF A._adding = 0 THEN tab_emit(A, "tab-added") ELSE A
    IN  IF B._adding = 0 /\ B._removing = 0 THEN model_changed(B) ELSE B

append_tab(T, tab) ==
    [T EXCEPT !.model = @ \cup {tab}, !.iter_map = @ \cup {tab},
              !.log = Append(@, "append")]

add(T, tab) == adding_exit(append_tab(adding_enter(T), tab))

RECURSIVE AddEach(_, _)
AddEach(T, tabs) ==
    IF tabs = << >> THEN T ELSE AddEach(add(T, Head(tabs)), Tail(tabs))

extend(T, tabs) == adding_exit(AddEach(adding_enter(T), tabs))

\* iter_map.pop(name) raises KeyError for a name that is not in the map: the
\* callers pass names of tabs that are shown
tab_remove(T, name) ==
    [T EXCEPT !.iter_map = @ \ {name}, !.model = @ \ {name},
              !.log = Append(@, "remove")]

\* --------------------------------------------------------- LibraryTabList
MaxCount == 2

StaticTabs == <<"guide", "videos", "music">>

AutoTabs == {"downloading", "converting", "others"}

\* the list after __init__ and build_tabs; `counts` is the count last
\* reported for each auto tab, `selected_ids` is app.tabs.selected_ids
InitLibraryTabList ==
    LET T == extend(InitTabList, StaticTabs)
    IN  [_adding |-> T._adding, _removing |-> T._removing,
         iter_map |-> T.iter_map, model |-> T.model,
         scopes |-> T.scopes, log |-> << >>,
         auto_tabs |-> AutoTabs, auto_tabs_to_show |-> {},
         counts |-> [name \in AutoTabs |-> 0],
         selected_ids |-> {}, blinked |-> {}, call |-> "build_tabs"]

show_auto_tab(T, name) ==
    IF name \notin T.iter_map THEN add(T, name) ELSE T

remove_auto_tab_ignoring_selection(T, name) == tab_remove(T, name)

remove_auto_tab_if_not_selected(T, name) ==
    IF name \in T.selected_ids THEN T ELSE tab_remove(T, name)

update_auto_tab_count(T, name, count) ==
    IF count > 0
    THEN show_auto_tab([T EXCEPT !.auto_tabs_to_show = @ \cup {name}], name)
    ELSE IF name \in T.iter_map
    THEN remove_auto_tab_if_not_selected(
             [T EXCEPT !.auto_tabs_to_show = @ \ {name}], name)
    ELSE T

RECURSIVE RemoveEachUnselected(_, _)
RemoveEachUnselected(T, names) ==
    IF names = {} THEN T
    ELSE LET name == CHOOSE n \in names : TRUE
         IN  RemoveEachUnselected(remove_auto_tab_if_not_selected(T, name),
                                  names \ {name})

on_deselected(T) ==
    RemoveEachUnselected(
        T, (T.auto_tabs \cap T.iter_map) \ T.auto_tabs_to_show)

on_selection_changed(T) == on_deselected(T)

blink_tab(T, tab_id) == show_auto_tab(T, tab_id)

\* ------------------------------------ HideableTabList and the Connect list
\* The widget model is a tree: a row is [id, parent], the root row is the
\* list's own TabInfo.  Removing a row from the model removes its subtree.
DeviceIds == {"d1", "d2"}

ShareIds == {"s1"}

FakeTypes == <<"video", "audio">>

RootId == "connect"

FakeId(id, typ) == id \o "-" \o typ

PlaylistId(id) == id \o "-playlist"

TabIds ==
    DeviceIds \cup ShareIds \cup {PlaylistId(id) : id \in ShareIds}
        \cup {FakeId(id, FakeTypes[k]) : id \in DeviceIds, k \in 1..Len(FakeTypes)}

DeviceInfos == [id : DeviceIds, mount : BOOLEAN, has_multiple_devices : BOOLEAN]

RowIds(T) == {row.id : row \in T.model}

child_rows(T, id) == {row \in T.model : row.parent = id}

RECURSIVE Subtree(_, _)
Subtree(T, id) ==
    {row \in T.model : row.id = id}
        \cup UNION {Subtree(T, row.id) : row \in child_rows(T, id)}

model_remove(T, id) == [T EXCEPT !.model = @ \ Subtree(T, id)]

\* HideableTabList.__init__: the root row is added and the view refreshed
InitHideableTabList ==
    [InitTabList EXCEPT !.model = {[id |-> RootId, parent |-> ""]},
                        !.iter_map = {RootId}]

has_info(T, id) == id \in T.iter_map

get_child_count(T, id) == Cardinality(child_rows(T, id))

\* parent_id None stands for the root row
HideableTabList_add(T, id, parent_id) ==
    LET A == adding_enter(T)
        B == [A EXCEPT !.model = @ \cup {[id |-> id, parent |-> parent_id]},
                       !.iter_map = @ \cup {id},
                       !.log = Append(@, "append")]
    IN  adding_exit(B)

forget_child_iters(T, id) ==
    [T EXCEPT !.iter_map = @ \ {row.id : row \in child_rows(T, id)}]

remove_one(T, id) ==
    IF id \notin T.iter_map THEN T
    ELSE LET A == [T EXCEPT !.iter_map = @ \ {id}]
         IN  [model_remove(forget_child_iters(A, id), id)
                  EXCEPT !.log = Append(@, "remove")]

RECURSIVE RemoveEach(_, _)
RemoveEach(T, id_list) ==
    IF id_list = << >> THEN T
    ELSE RemoveEach(remove_one(T, Head(id_list)), Tail(id_list))

HideableTabList_remove(T, id_list) ==
    removing_exit(RemoveEach(removing_enter(T), id_list))

RECURSIVE AddFakes(_, _, _)
AddFakes(T, id, k) ==
    IF k > Len(FakeTypes) THEN T
    ELSE AddFakes(HideableTabList_add(T, FakeId(id, FakeTypes[k]), id),
                  id, k + 1)

_add_fake_tabs(T, info) == adding_exit(AddFakes(adding_enter(T), info.id, 1))

DeviceTabListHandler_add(T, info) ==
    LET A == HideableTabList_add(T, info.id, RootId)
    IN  IF info.mount /\ ~info.has_multiple_devices
        THEN _add_fake_tabs(A, info) ELSE A

\* the child rows are taken out of the model one by one; iter_map is not
\* touched
RemoveChildRows(T, id) ==
    [T EXCEPT !.model = @ \ UNION {Subtree(T, row.id) : row \in child_rows(T, id)}]

DeviceTabListHandler_update(T, info) ==
    IF ~has_info(T, info.id) THEN T
    ELSE IF info.mount /\ ~info.has_multiple_devices
            /\ get_child_count(T, info.id) = 0
    THEN _add_fake_tabs(T, info)
    ELSE IF get_child_count(T, info.id) # 0 /\ ~info.mount
    THEN RemoveChildRows(T, info.id)
    ELSE T

\* ------------------------------------------------- sharing.SharingManager
MaxThreads == 2
MaxPipe == 3

CMD_QUIT == "quit"

CMD_NOP == "nop"

\* `pipe` is what was sent on self.w and not yet received on self.r;
\* `threads` holds every server thread ever started, `thread` and `server`
\* say whether the manager still has the attribute
InitSharingManager ==
    [sharing |-> FALSE, discoverable |-> FALSE, pipe |-> << >>,
     threads |-> << >>, thread |-> FALSE, server |-> FALSE,
     call |-> "__init__"]

w_send(M, cmd) == [M EXCEPT !.pipe = Append(@, cmd)]

enable_discover(M) == w_send([M EXCEPT !.discoverable = TRUE], CMD_NOP)

disable_discover(M) == [M EXCEPT !.discoverable = FALSE]

\* make_daap_server answers None when the server cannot be made
enable_sharing(M, made) ==
    IF ~made THEN [M EXCEPT !.server = FALSE, !.sharing = FALSE]
    ELSE [M EXCEPT !.server = TRUE, !.thread = TRUE,
                   !.threads = Append(@, "running"), !.sharing = TRUE]

disable_sharing(M) ==
    [w_send([M EXCEPT !.sharing = FALSE], CMD_QUIT)
        EXCEPT !.thread = FALSE, !.server = FALSE, !.call = "disable_sharing"]

twiddle_sharing(M, sharing, discoverable, made) ==
    LET A == IF sharing # M.sharing
             THEN IF sharing THEN enable_sharing(M, made)
                  ELSE disable_sharing(
                           IF M.discoverable THEN disable_discover(M) ELSE M)
             ELSE M
    IN  IF ~A.sharing THEN A
        ELSE IF discoverable # A.discoverable
        THEN IF discoverable THEN enable_discover(A) ELSE disable_discover(A)
        ELSE A

sharing_shutdown(M) == IF M.sharing THEN disable_sharing(M) ELSE M

\* one pass of the select loop of thread t with self.r readable: recv(1024)
\* takes the first n commands that are waiting; what it returns is one
\* command only when n = 1.  Anything that is neither quit nor nop reaches
\* the bare raise, which the except clause swallows.
server_thread(M, t, n) ==
    LET cmd == IF n = 1 THEN M.pipe[1] ELSE "joined"
        A == [M EXCEPT !.pipe = SubSeq(@, n + 1, Len(@))]
    IN  IF cmd = CMD_QUIT THEN [A EXCEPT !.threads[t] = "terminated"] ELSE A

\* --------------------------------------------------- sharing.SharingTracker
MaxSeen == 4

ShareNames == {"a", "b"}

SharePorts == {"3689", "3690"}

\* share_id = (fullname, host, port)
ShareIdents == [fullname : ShareNames, host : {"h"}, port : SharePorts]

\* available_shares is a list; `sent` holds, in order, what each TabsChanged
\* message sent to the frontend says
InitSharingTracker == [available_shares |-> << >>, sent |-> << >>]

InList(list, x) == \E k \in 1..Len(list) : list[k] = x

TabsChanged(K, kind, share_id) ==
    [K EXCEPT !.sent = Append(@, [kind |-> kind, share_id |-> share_id])]

\* local_port is the port of this program's own server ("None" without
\* one); addresses says that local_addresses + ip_values is not empty
mdns_callback_backend(K, added, share_id, local_port, addresses) ==
    IF addresses /\ local_port = share_id.port THEN K
    ELSE IF added /\ InList(K.available_shares, share_id) THEN K
    ELSE IF ~added /\ ~InList(K.available_shares, share_id) THEN K
    ELSE IF added
    THEN TabsChanged([K EXCEPT !.available_shares = Append(@, share_id)],
                     "added", share_id)
    ELSE TabsChanged([K EXCEPT !.available_shares = Append(@, share_id)],
                     "removed", share_id)

\* ------------------------------------------- sharing.SharingItemTrackerImpl
MaxTrackers == 3

\* app.sharing_tracker.trackers maps a share id to the tracker made for
\* it; `impls` holds every SharingItemTrackerImpl ever made, with the state
\* of its connection attempt; `sent` is what went to the frontend
InitShareTrackers ==
    [trackers |-> [share_id \in ShareNames |-> 0], impls |-> << >>,
     sent |-> << >>, raised |-> "none"]

SendToFrontend(K, kind, share_id, impl) ==
    [K EXCEPT !.sent = Append(@, [kind |-> kind, share_id |-> share_id,
                                  impl |-> impl])]

\* SharingItemTrackerImpl.__init__: the connection attempt is handed to a
\* thread
NewImpl(K, share_id) ==
    [K EXCEPT !.impls = Append(@, [id |-> share_id, connect |-> "pending"]),
              !.trackers[share_id] = Len(K.impls) + 1]

get_tracker(K, share_id) ==
    IF K.trackers[share_id] # 0 THEN K ELSE NewImpl(K, share_id)

disconnect(K, impl) ==
    SendToFrontend(K, "ItemsChanged", K.impls[impl].id, impl)

\* self.trackers[share_id] raises KeyError for a share that has no tracker
eject(K, share_id) ==
    IF K.trackers[share_id] = 0 THEN [K EXCEPT !.raised = "KeyError"]
    ELSE disconnect([K EXCEPT !.trackers[share_id] = 0], K.trackers[share_id])

client_connect_callback(K, impl) ==
    SendToFrontend([K EXCEPT !.impls[impl].connect = "connected"],
                   "ItemsChanged", K.impls[impl].id, impl)

client_connect_error_callback(K, impl) ==
    LET A == eject([K EXCEPT !.impls[impl].connect = "failed"],
                   K.impls[impl].id)
    IN  IF A.raised # "none" THEN A
        ELSE SendToFrontend(A, "SharingConnectFailed", K.impls[impl].id, impl)

\* ------------------------------------------- sharing.SharingManagerBackend
MediaIds == {"i1", "i2"}

MediaNames == {"n1", "n2"}

SharedPlaylistIds == {"p1", "p2"}

\* the library: the shared (video and music) items with their current
\* name, and the saved playlists with their current member ids
Libraries ==
    [items : SUBSET [id : MediaIds, name : MediaNames],
     playlists : SUBSET [id : SharedPlaylistIds, item_ids : SUBSET MediaIds]]

OneEach(rows) == \A r, s \in rows : r.id = s.id => r = s

daap_item_fixup(item) == [id |-> item.id, minm |-> item.name]

\* the dicts are sets of [id, ...] rows; writing a key replaces its row
Put(dict, row) == {r \in dict : r.id # row.id} \cup {row}

make_item_dict(B, items) ==
    [B EXCEPT
       !.items = {r \in @ : \A x \in items : x.id # r.id} \cup items,
       !.daapitems = {r \in @ : \A x \in items : x.id # r.id}
                         \cup {daap_item_fixup(x) : x \in items}]

handle_item_list(B, items) == make_item_dict(B, items)

\* del on an id that is not in the dict raises KeyError; the info updater
\* reports removals of items it has reported before
handle_items_changed(B, added, changed, removed) ==
    LET A == [B EXCEPT
                !.items = {r \in @ : r.id \notin removed},
                !.daapitems = {r \in @ : r.id \notin removed}]
    IN  make_item_dict(make_item_dict(A, added), changed)

\* mimc is counted from the playlist's rows in the database
make_daap_playlists(B, playlists) ==
    [B EXCEPT !.daap_playlists =
        {r \in @ : \A x \in playlists : x.id # r.id}
            \cup {[id |-> x.id, mimc |-> Cardinality(x.item_ids)] :
                      x \in playlists}]

handle_playlist_added(B, added) == make_daap_playlists(B, added)

handle_playlist_changed(B, changed) ==
    make_daap_playlists(
        [B EXCEPT !.daap_playlists =
             {r \in @ : \A x \in changed : x.id # r.id}], changed)

handle_playlist_removed(B, removed) ==
    [B EXCEPT !.daap_playlists = {r \in @ : r.id \notin removed}]

populate_playlists(B, playlists) ==
    [make_daap_playlists(B, playlists) EXCEPT !.playlist_item_map = playlists]

\* the backend after start_tracking and the first item lists
InitBackend(lib) ==
    handle_item_list(
        populate_playlists(
            [items |-> {}, daapitems |-> {}, daap_playlists |-> {},
             playlist_item_map |-> {}, lib |-> lib, raised |-> "none"],
            lib.playlists),
        lib.items)

\* get_items(playlist_id): self.playlist_item_map[playlist_id] raises
\* KeyError for a playlist that is not in the map
backend_get_items(B, playlist_id) ==
    IF \E r \in B.playlist_item_map : r.id = playlist_id
    THEN B ELSE [B EXCEPT !.raised = "KeyError"]

\* ----------------------------------- worker process (test/subprocesstest.py)
\* workerprocess and subprocessmanager are not among the source files: the
\* worker system is modelled from the specification and from what the tests
\* set up.  Time is counted in ticks; a task's `time` is how many ticks a
\* worker thread spends on it.
ThreadCount == 2

SlowCount == 4

MaxKills == 1

SlowTimes == {2, 3}

SlowRunningTask_ahead(time) ==
    [cls |-> "SlowRunningTask", priority |-> 30, time |-> time]

SlowRunningTask(time) ==
    [cls |-> "SlowRunningTask", priority |-> -10, time |-> time]

FeedparserTask == [cls |-> "FeedparserTask", priority |-> 20, time |-> 1]

Idle == [task |-> 0, left |-> 0]

\* `sent` holds every task handed to workerprocess.send with the number of
\* results that had come back by then; `pending` the tasks waiting in the
\* subprocess (indices into sent), `results` the tasks whose callback ran
InitWorker ==
    [pid |-> 1, alive |-> TRUE, restarts |-> 0, kills |-> 0,
     sent |-> << >>, pending |-> << >>,
     threads |-> [t \in 1..ThreadCount |-> Idle], results |-> << >>,
     interrupted |-> {}]

worker_send(W, task) ==
    LET A == [W EXCEPT !.sent = Append(@, [task |-> task,
                                           before |-> Len(W.results)])]
    IN  IF W.alive THEN [A EXCEPT !.pending = Append(@, Len(A.sent))] ELSE A

\* the waiting task a free thread takes: the highest priority, the oldest
\* among equals
NextTask(W) ==
    CHOOSE k \in 1..Len(W.pending) :
        \A j \in 1..Len(W.pending) :
            \/ W.sent[W.pending[j]].task.priority
                   < W.sent[W.pending[k]].task.priority
            \/ /\ W.sent[W.pending[j]].task.priority
                      = W.sent[W.pending[k]].task.priority
               /\ k <= j

Without(s, k) == SubSeq(s, 1, k - 1) \o SubSeq(s, k + 1, Len(s))

worker_take(W, t) ==
    LET k == NextTask(W)
    IN  [W EXCEPT !.threads[t] = [task |-> W.pending[k],
                                  left |-> W.sent[W.pending[k]].task.time],
                  !.pending = Without(@, k)]

worker_tick(W) ==
    [W EXCEPT !.threads =
        [t \in 1..ThreadCount |->
            IF W.threads[t].task = 0 THEN Idle
            ELSE [W.threads[t] EXCEPT !.left = @ - 1]]]

\* the task's result goes back over the pipe and its callback runs
worker_finish(W, t) ==
    [W EXCEPT !.results = Append(@, W.threads[t].task), !.threads[t] = Idle]

\* process.terminate(): the subprocess is gone with all it held;
\* `interrupted` remembers the tasks it was running
worker_terminate(W) ==
    [W EXCEPT !.alive = FALSE, !.kills = @ + 1, !.pending = << >>,
              !.threads = [t \in 1..ThreadCount |-> Idle],
              !.interrupted = @ \cup {W.threads[t].task :
                                         t \in {u \in 1..ThreadCount :
                                                    W.threads[u].task # 0}}]

Unanswered(W) ==
    SelectSeq([k \in 1..Len(W.sent) |-> k],
              LAMBDA k : \A j \in 1..Len(W.results) : W.results[j] # k)

worker_restart_drops_tasks(W) ==
    [W EXCEPT !.alive = TRUE, !.pid = @ + 1, !.restarts = @ + 1]

\* the manager notices the dead subprocess, starts a new one and sends it
\* the tasks that have no result yet
worker_restart(W) ==
    [W EXCEPT !.alive = TRUE, !.pid = @ + 1, !.restarts = @ + 1,
              !.pending = Unanswered(W)]

\* ------------------------------------ what the frontend holds of a tracker
\* The frontend keeps the ids of the initial list, adds those of every
\* added list and drops those of every removed list.  `seen` holds the
\* change messages of the last step, each with the ids known before it.
MsgIds(msg) ==
    [added |-> [k \in 1..Len(msg.added) |-> msg.added[k].id],
     changed |-> [k \in 1..Len(msg.changed) |-> msg.changed[k].id],
     removed |-> msg.removed]

RECURSIVE FrontendReceive(_, _, _)
FrontendReceive(known, flushes, seen) ==
    IF flushes = << >> THEN [known |-> known, seen |-> seen]
    ELSE IF ~Head(flushes).sent THEN FrontendReceive(known, Tail(flushes), seen)
    ELSE LET ids == MsgIds(Head(flushes).msg)
         IN  FrontendReceive((known \cup Range(ids.added)) \ Range(ids.removed),
                     Tail(flushes),
                     Append(seen, [known |-> known, ids |-> ids]))

\* the tracker after a callback or a flush, and what reached the frontend
Frontend(F, M, view, mem) ==
    LET got == FrontendReceive(F.known, M.flushes, << >>)
    IN  [M |-> M, mem |-> mem, view |-> view,
         known |-> got.known, seen |-> got.seen]

\* ------------------------------------ BulkSQLManager.finish that raises
\* app.db.bulk_insert or app.db.bulk_remove raises in the first round of
\* commit (LiveStorage._execute catches sqlite3.OperationalError only): the
\* buffers were swapped out before the call and nothing after it runs
_commit_sql_raises(D) == [D EXCEPT !.err = "DatabaseError"]

commit_interrupted(D) ==
    _commit_sql_raises([D EXCEPT !.to_insert = EmptyDict,
                                 !.to_remove = EmptyDict])

\* the finally clause of finish; finish_transaction is not reached
finish_interrupted(D) == [commit_interrupted(D) EXCEPT !.active = FALSE]


NoApp == [call |-> NoCall]

\* ================================================================ state
InitDB(persisted, rr, trackers, observe) ==
    LET rows == [i \in Ids |-> IF i = 1 THEN persisted ELSE NoRow]
    IN [lastID |-> IF persisted = NoRow THEN 0 ELSE 1,
        mem |-> [i \in Ids |-> NoObj],
        object_map |-> {},
        made |-> [i \in Ids |-> 0],
        inst |-> [i \in Ids |-> 0],
        dirty |-> [i \in Ids |-> {}],
        rows |-> rows,
        active |-> FALSE,
        to_insert |-> EmptyDict,
        to_remove |-> EmptyDict,
        pending_inserts |-> {},
        pending_removes |-> {},
        cur |-> [t \in Views |-> IF t \in trackers THEN query_ids(rows, t) ELSE {}],
        linked |-> trackers,
        restore_removes |-> rr,
        observe |-> observe,
        ev |-> << >>,
        err |-> "none",
        sig_removed |-> {},
        removed_called |-> {},
        self_removed |-> {},
        self_added |-> {}]

InitMH ==
    [state |-> "none",
     added |-> {}, added_order |-> << >>, changed |-> {}, removed |-> {},
     changes_pending |-> FALSE, last_sent_info |-> << >>,
     tabs_being_reordered |-> FALSE, queue |-> 0, err |-> "none",
     hist |-> [i \in Ids |-> "none"], flushes |-> << >>,
     forced |-> FALSE]

NoOp == [op |-> "none"]

\* The database as it is opened: the store may hold one persisted item that
\* is not loaded yet; a tracker has been made from each of the two views.
Init ==
    /\ \E persisted \in {NoRow} \cup ItemObjs, rr \in BOOLEAN :
          /\ persisted = NoRow => ~rr
          /\ db = InitDB(persisted, rr, {"t1", "t2"}, TRUE)
    /\ mh = InitMH
    /\ gh = NoOp
    /\ dl = NoDaemon
    /\ ls = NoStorage
    /\ app = NoApp

\* Instances no longer reachable through the identity map or the tracker's
\* buffers are dropped from the state.
Settle(D, M) ==
    LET keep == D.object_map \cup M.added \cup M.changed
    IN [D EXCEPT !.mem = [i \in Ids |-> IF i \in keep THEN @[i] ELSE NoObj],
                 !.dirty = [i \in Ids |-> IF i \in keep THEN @[i] ELSE {}],
                 !.ev = << >>,
                 !.sig_removed = IF D.observe THEN @ ELSE {},
                 !.removed_called = IF D.observe THEN @ ELSE {},
                 !.self_removed = IF D.observe THEN @ ELSE {},
                 !.self_added = IF D.observe THEN @ ELSE {}]

\* The observation fields sig_removed, removed_called, self_removed and
\* self_added
\* describe the call being made, or, inside a bulk-write scope, the scope so
\* far: they start empty when a call is made outside a scope.  They are kept
\* in the state only where the database is observed (D.observe).
Fresh(D) ==
    IF D.active /\ D.observe THEN D
    ELSE [D EXCEPT !.sig_removed = {}, !.removed_called = {},
                   !.self_removed = {}, !.self_added = {}]

\* forced starts again when no flush is queued; flushes describes one step
Observe(M) ==
    [M EXCEPT !.flushes = << >>,
              !.forced = IF M.queue = 0 THEN FALSE ELSE @]

\* one call into the database, the signals it emitted delivered to the
\* callbacks of the dispatcher-side tracker M0 when it exists
StepWith(D1, M0, g) ==
    LET M1 == IF mh.state = "none" THEN mh
              ELSE [Deliver(M0, D1, D1.ev) EXCEPT !.tabs_being_reordered = FALSE]
    IN /\ D1.err = "none"
       /\ M1.err = "none"
       /\ M1.queue <= MaxQueue
       /\ Len(M1.added_order) <= MaxAddedOrder
       /\ db' = Settle(D1, M1)
       /\ mh' = M1
       /\ gh' = IF db.observe THEN g ELSE NoOp
       /\ UNCHANGED <<dl, ls, app>>

Step(D1, g) == StepWith(D1, Observe(mh), g)

\* ============================================================== actions
CreateOf(objs) ==
    \E o \in objs, selfRemove \in BOOLEAN :
        /\ db.lastID < MaxId
        /\ Step(NewObject(Fresh(db), o, selfRemove), NoOp)

Create == CreateOf(ItemObjs \cup PimObjs)

CreateItem ==
    \E o \in ItemObjs :
        /\ db.lastID < MaxId
        /\ Step(NewObject(Fresh(db), o, FALSE), NoOp)

\* View.__iter__ on one of the views, or on Item.make_view() ("all")
IterView ==
    \E v \in Views \cup {"all"} :
        LET ids == IF v = "all" THEN {i \in Ids : db.rows[i].k = "item"}
                   ELSE query_ids(db.rows, v)
           got == prepare_objects(Fresh(db), SortedSeq(ids))
        IN /\ ids \ db.object_map # {}
           /\ Step(got.D, [op |-> "query", ids |-> Range(got.ids)])

\* cls.get_by_id(id) called by the application
GetById ==
    \E cls \in {"item", "pim"}, id \in Ids :
        LET R == get_by_id(Fresh(db), cls, id)
        IN Step(R.D, [op |-> "get_by_id", id |-> id, obj |-> R.obj,
                      loaded |-> id \in db.object_map])

SetAttr ==
    \E id \in db.object_map, name \in Fields, value \in Vals :
        /\ klass(db, id) = "item"
        /\ db.mem[id][name] # value
        /\ Step(SetAttribute(Fresh(db), id, name, value), NoOp)

SignalChange ==
    \E id \in db.object_map, needs_save \in BOOLEAN :
        Step(signal_change(Fresh(db), id, needs_save),
             [op |-> "signal_change", id |-> id, needs_save |-> needs_save,
              dirty |-> db.dirty[id], row |-> db.rows[id],
              will_insert |-> will_insert(db, id)])

\* a handler of the backend assigns a field of a tracked object and calls
\* signal_change() before it returns to the event loop
Change ==
    \E id \in db.object_map, name \in Fields, value \in Vals :
        Step(signal_change(SetAttribute(Fresh(db), id, name, value), id, TRUE),
             NoOp)

Remove ==
    \E id \in db.object_map :
        /\ ~will_remove(db, id)
        /\ Step(remove(Fresh(db), id), NoOp)

BulkStart ==
    /\ ~db.active
    /\ Step(start(Fresh(db)), NoOp)

BulkFinish ==
    /\ db.active
    /\ Step(finish(db), NoOp)

\* handle_track_*: the tracker is made if there is none, and the list of the
\* view's objects is sent
Track ==
    /\ mh.state \in {"none", "tracking"}
    /\ LET D1 == IF mh.state = "none" THEN make_tracker(Fresh(db), "t1")
                 ELSE Fresh(db)
           objs == SortedSeq(query_ids(db.rows, "t1"))
           M1 == send_initial_list([Observe(mh) EXCEPT !.state = "tracking"],
                                   D1, objs)
       IN /\ db' = Settle(D1, M1)
          /\ mh' = M1
          /\ gh' = NoOp
          /\ UNCHANGED <<dl, ls, app>>

\* handle_stop_tracking_*
StopTracking ==
    /\ mh.state = "tracking"
    /\ LET M1 == [Observe(mh) EXCEPT !.state = "stopped"]
       IN /\ db' = Settle(unlink(Fresh(db)), M1)
          /\ mh' = M1
          /\ gh' = NoOp
          /\ UNCHANGED <<dl, ls, app>>

\* the event loop runs one queued urgent call: ViewTracker.send_messages
Flush ==
    /\ mh.queue > 0
    /\ LET M1 == [send_messages([mh EXCEPT !.flushes = << >>], db)
                     EXCEPT !.queue = @ - 1]
       IN /\ M1.err = "none"
          /\ db' = Settle(Fresh(db), M1)
          /\ mh' = M1
          /\ gh' = NoOp
          /\ UNCHANGED <<dl, ls, app>>

\* handle_tabs_reordered: the tabs' folder (the field b, which the view's
\* filter does not read) is assigned and signal_change() called for them
\* while tabs_being_reordered is set
TabsReordered ==
    /\ mh.state = "tracking"
    /\ \E id \in db.object_map, value \in Vals :
          StepWith(signal_change(SetAttribute(Fresh(db), id, "b", value),
                                 id, TRUE),
                   [Observe(mh) EXCEPT !.tabs_being_reordered = TRUE], NoOp)

Next ==
    \/ Create
    \/ IterView
    \/ SetAttr
    \/ SignalChange
    \/ Remove
    \/ BulkStart
    \/ BulkFinish

Spec == Init /\ [][Next]_vars

\* The identity map: objects are created, restored by queries and lookups,
\* and removed, directly or in a bulk-write scope.
NextIdent ==
    \/ Create
    \/ IterView
    \/ GetById
    \/ Remove
    \/ BulkStart
    \/ BulkFinish

SpecIdent == Init /\ [][NextIdent]_vars

\* The dispatcher: the database holds items only and starts empty; the
\* frontend asks for the view "t1" to be tracked.
InitTrack ==
    /\ db = InitDB(NoRow, FALSE, {}, FALSE)
    /\ mh = InitMH
    /\ gh = NoOp
    /\ dl = NoDaemon
    /\ ls = NoStorage
    /\ app = NoApp

NextTrack ==
    \/ CreateItem
    \/ Change
    \/ Remove
    \/ Track
    \/ StopTracking
    \/ Flush
    \/ TabsReordered

SpecTrack == InitTrack /\ [][NextTrack]_vars

\* ------------------------------------------- bulk and individual inserts
\* The same objects are constructed twice from the same database: in db
\* inside one bulk-write scope, and in gh.ind one by one outside any scope.
NewObjs == [o : ItemObjs \cup PimObjs, selfRemove : BOOLEAN]

ObjLists(n) == UNION {[1..k -> NewObjs] : k \in 1..n}

InitBulk ==
    /\ \E persisted \in {NoRow} \cup ItemObjs :
          LET D == InitDB(persisted, FALSE, {"t1", "t2"}, TRUE)
          IN /\ db = D
             /\ \E todo \in ObjLists(MaxId - D.lastID) :
                   gh = [op |-> "pair", phase |-> "start", ind |-> D,
                         todo |-> todo]
    /\ mh = InitMH
    /\ dl = NoDaemon
    /\ ls = NoStorage
    /\ app = NoApp

\* one call made in the scope (D1) and its counterpart outside (D2)
PairStep(D1, D2, g) ==
    /\ D1.err = "none"
    /\ D2.err = "none"
    /\ db' = Settle(D1, mh)
    /\ gh' = [g EXCEPT !.ind = Settle(D2, mh)]
    /\ UNCHANGED <<mh, dl, ls, app>>

PairStart ==
    /\ gh.phase = "start"
    /\ PairStep(start(db), gh.ind, [gh EXCEPT !.phase = "insert"])

PairInsert ==
    /\ gh.phase = "insert"
    /\ gh.todo # << >>
    /\ PairStep(NewObject(db, Head(gh.todo).o, Head(gh.todo).selfRemove),
                NewObject(Fresh(gh.ind), Head(gh.todo).o,
                          Head(gh.todo).selfRemove),
                [gh EXCEPT !.todo = Tail(@)])

PairFinish ==
    /\ gh.phase = "insert"
    /\ gh.todo = << >>
    /\ PairStep(finish(db), gh.ind, [gh EXCEPT !.phase = "done"])

NextBulk ==
    \/ PairStart
    \/ PairInsert
    \/ PairFinish

SpecBulk == InitBulk /\ [][NextBulk]_vars

\* ------------------------------------------------------ the download daemon
Alive(L) == {i \in Insts : L.objs[i].kind # "none"}

\* an object that can still act: the registry, the session, a request or a
\* retry timeout refers to it (an update_stats timeout alone finds no client
\* and returns)
Referenced(L, i) ==
    \/ \E d \in Dlids : L._downloads[d] = i
    \/ i \in L.torrents
    \/ L.objs[i].torrent
    \/ L.objs[i].client
    \/ L.objs[i].retryDC
    \/ L.objs[i].description_clients > 0

\* the call being made starts with the answers e of the disk and the engine
Begin(e) ==
    [dl EXCEPT !.env = e, !.sent = << >>, !.tried = << >>, !.frd = << >>,
               !.started = << >>,
               !.trans = {}, !.fired = NoFire]

\* trans: the state changes the call made, as <<kind, from, to>>; objects
\* that cannot act any more are dropped from the state; the records of what
\* the call did are kept where the specification watches them (scope.watch)
Watched(L, name, value, empty) ==
    IF name \in L.scope.watch THEN value ELSE empty

SettleDL(L1) ==
    [L1 EXCEPT
        !.objs = [i \in Insts |->
                     IF i \in Alive(L1) /\ Referenced(L1, i) THEN L1.objs[i]
                     ELSE NoDl],
        !.trans = Watched(L1, "trans",
                      {<<dl.objs[i].kind, dl.objs[i].state, L1.objs[i].state>> :
                          i \in {j \in Alive(dl) :
                                    dl.objs[j].state # L1.objs[j].state}}, {}),
        !.sent = Watched(L1, "tried", @, << >>),
        !.tried = Watched(L1, "tried", @, << >>),
        !.started = Watched(L1, "started", @, << >>),
        !.fired = Watched(L1, "fired", @, NoFire),
        !.frd = Watched(L1, "frd", @, << >>),
        !.frd_row = Watched(L1, "frd", @, 0),
        !.frd_fails = Watched(L1, "frd", @, 0),
        !.env = DefaultEnv]

DStep(L1) ==
    /\ \A i \in Alive(L1) : /\ L1.objs[i].polls <= MaxPolls
                            /\ L1.objs[i].description_clients <= MaxDesc
    /\ dl' = SettleDL(L1)
    /\ UNCHANGED <<db, mh, gh, ls, app>>

FreeObj == CHOOSE n \in Insts : /\ dl.objs[n] = NoDl
                                /\ \A m \in 1..(n - 1) : dl.objs[m] # NoDl

HasFree == \E n \in Insts : dl.objs[n] = NoDl

FrdAnswers == IF dl.scope.frd THEN BOOLEAN ELSE {TRUE}

EnvWith(space, lt_ok, file_ok) ==
    [DefaultEnv EXCEPT !.space = space, !.lt_ok = lt_ok, !.file_ok = file_ok]

StartDownload ==
    \E what \in dl.scope.whats, dlid \in dl.scope.dlids,
       space \in BOOLEAN, lt_ok \in BOOLEAN, file_ok \in BOOLEAN :
        /\ HasFree
        /\ DStep(start_download(Begin(EnvWith(space, lt_ok, file_ok)),
                                what, dlid, FreeObj))

RestoreDownloader ==
    \E data \in dl.scope.restores, space \in BOOLEAN, lt_ok \in BOOLEAN :
        /\ HasFree
        /\ dl._downloads[data.dlid] = 0
        /\ DStep(restore_downloader(Begin(EnvWith(space, lt_ok, TRUE)),
                                    data, FreeObj))

PauseDownload ==
    \E dlid \in dl.scope.dlids :
        /\ dl._downloads[dlid] # 0
        /\ DStep(pause_download(Begin(DefaultEnv), dlid))

StopDownload ==
    \E dlid \in dl.scope.dlids, delete \in BOOLEAN, frd_ok \in FrdAnswers :
        /\ dl._downloads[dlid] # 0
        /\ DStep(stop_download(Begin([DefaultEnv EXCEPT !.frd_ok = frd_ok]),
                               dlid, delete))

StopUpload ==
    \E dlid \in dl.scope.dlids :
        /\ dl._downloads[dlid] # 0
        /\ DStep(stop_upload(Begin(DefaultEnv), dlid))

PauseUpload ==
    \E dlid \in dl.scope.dlids :
        /\ dl._downloads[dlid] # 0
        /\ DStep(pause_upload(Begin(DefaultEnv), dlid))

MigrateDownload ==
    \E dlid \in dl.scope.dlids, lt_ok \in BOOLEAN :
        /\ dl._downloads[dlid] # 0
        /\ dl.objs[dl._downloads[dlid]].state
               \in {"finished", "uploading", "uploading-paused"}
        /\ DStep(migrate_download(Begin(EnvWith(TRUE, lt_ok, TRUE)), dlid))

\* DownloadStatusUpdater.do_update, once a second
DoUpdate ==
    \E frd_ok \in FrdAnswers, frd_due \in BOOLEAN, ratio \in BOOLEAN,
       lt_ok \in BOOLEAN :
        /\ dl.torrents # {}
        /\ DStep(update_torrents(
               Begin([DefaultEnv EXCEPT !.frd_ok = frd_ok,
                                        !.frd_due = frd_due,
                                        !.ratio = ratio,
                                        !.lt_ok = lt_ok])))

\* the request for the torrent file answers: on_metainfo_download
MetainfoArrives ==
    \E i \in Alive(dl), body \in {"ok", "bad"},
       space \in BOOLEAN, lt_ok \in BOOLEAN :
        /\ dl.objs[i].description_clients > 0
        /\ DStep(handle_metainfo(
               [Begin(EnvWith(space, lt_ok, TRUE)) EXCEPT
                    !.objs[i].description_clients = @ - 1], i, body))

\* the request for the torrent file fails: on_metainfo_download_error
MetainfoError ==
    \E i \in Alive(dl), error \in {"temporary", "permanent"} :
        /\ dl.objs[i].description_clients > 0
        /\ error = "temporary" => dl.objs[i].fails < dl.scope.fails
        /\ DStep(handle_network_error(
               [Begin(DefaultEnv) EXCEPT
                    !.objs[i].description_clients = @ - 1], i, error))

\* the engine: a torrent completes, a magnet link's metadata arrives
TorrentSeeds ==
    \E i \in dl.torrents :
        /\ dl.objs[i].has_metadata
        /\ ~dl.objs[i].seeding
        /\ DStep([Begin(DefaultEnv) EXCEPT !.objs[i].seeding = TRUE])

MagnetMetadata ==
    \E i \in dl.torrents :
        /\ ~dl.objs[i].has_metadata
        /\ DStep([Begin(DefaultEnv) EXCEPT !.objs[i].has_metadata = TRUE])

\* the retry timeout of handle_temporary_error fires
RetryFires ==
    \E i \in Alive(dl), space \in BOOLEAN, lt_ok \in BOOLEAN :
        /\ dl.objs[i].retryDC
        /\ DStep(retry_download(Begin(EnvWith(space, lt_ok, TRUE)), i))

\* the HTTP client: headers, data, the end of the transfer, an error
OnHeaders ==
    \E i \in Alive(dl), space \in BOOLEAN :
        /\ dl.objs[i].client
        /\ ~dl.objs[i].headers
        /\ DStep(on_headers(Begin(EnvWith(space, TRUE, TRUE)), i))

Receive ==
    \E i \in Alive(dl) :
        /\ dl.objs[i].client
        /\ dl.objs[i].headers
        /\ dl.objs[i].file < MaxSize
        /\ DStep([Begin(DefaultEnv) EXCEPT !.objs[i].file = @ + 1])

OnDownloadFinished ==
    \E i \in Alive(dl) :
        /\ dl.objs[i].client
        /\ dl.objs[i].headers
        /\ dl.objs[i].currentSize = 0 => dl.objs[i].fails < dl.scope.fails
        /\ DStep(on_download_finished(Begin(DefaultEnv), i))

OnDownloadError ==
    \E i \in Alive(dl),
       error \in {"ResumeFailed", "AuthorizationCanceled", "temporary",
                  "permanent"} :
        /\ dl.objs[i].client
        /\ error = "ResumeFailed" => dl.objs[i].resumed /\ ~dl.objs[i].headers
        /\ error = "temporary" => dl.objs[i].fails < dl.scope.fails
        /\ DStep(on_download_error(Begin(DefaultEnv), i, error))

\* one update_stats timeout fires; fired: for which object, and how many
\* were pending
PollFires ==
    \E i \in Alive(dl) :
        /\ dl.objs[i].polls > 0
        /\ DStep(update_stats(
               [Begin(DefaultEnv) EXCEPT
                    !.objs[i].polls = @ - 1,
                    !.fired = [obj |-> i, polls |-> dl.objs[i].polls]], i))

\* the partial file of a downloader without a client is changed from outside
FileChanged ==
    \E i \in Alive(dl), size \in -1..MaxSize :
        /\ dl.objs[i].kind = "http"
        /\ ~dl.objs[i].client
        /\ dl.objs[i].file # size
        /\ DStep([Begin(DefaultEnv) EXCEPT !.objs[i].file = size])

\* Torrents: the main process starts, pauses, stops, restores and migrates
\* torrents given as .torrent URLs and as magnet links.
Torrents ==
    {[kind |-> "bt", url |-> "file", hash |-> h, enc |-> "none"] :
        h \in Hashes}
    \cup [kind : {"magnet"}, url : {"none"}, hash : {HashA},
          enc : {"hex", "b32"}]

RestoredTorrents ==
    {[kind |-> "bt", url |-> "file", dlid |-> 1, hash |-> HashA,
      magnet |-> NoMagnet, state |-> "downloading", currentSize |-> 0,
      file |-> 0, retryCount |-> -1, metainfo |-> "ok"]}

TorrentScope ==
    [whats |-> Torrents, dlids |-> Dlids, restores |-> RestoredTorrents,
     fails |-> 0, frd |-> FALSE, watch |-> {"tried"}]

InitTorrent ==
    /\ db = InitDB(NoRow, FALSE, {}, FALSE)
    /\ mh = InitMH
    /\ gh = NoOp
    /\ dl = InitDL(TorrentScope)
    /\ ls = NoStorage
    /\ app = NoApp

NextTorrent ==
    \/ StartDownload
    \/ RestoreDownloader
    \/ PauseDownload
    \/ StopDownload
    \/ StopUpload
    \/ PauseUpload
    \/ MigrateDownload
    \/ DoUpdate
    \/ TorrentSeeds
    \/ MagnetMetadata

SpecTorrent == InitTorrent /\ [][NextTorrent]_vars

\* The daemon with both kinds of downloader: one download id is started,
\* paused, stopped, restored and migrated while the requests, the engine and
\* the timeouts answer in any order.
DaemonScope ==
    [whats |-> {[kind |-> "http", url |-> "http", hash |-> 0, enc |-> "none"],
                [kind |-> "bt", url |-> "http", hash |-> HashA,
                 enc |-> "none"]},
     dlids |-> {1},
     restores |-> {[kind |-> "bt", url |-> "http", dlid |-> 1,
                    hash |-> HashA, magnet |-> NoMagnet,
                    state |-> "uploading", currentSize |-> 0, file |-> 0,
                    retryCount |-> -1, metainfo |-> "ok"]},
     fails |-> 1, frd |-> FALSE, watch |-> {"trans"}]

InitDaemon ==
    /\ db = InitDB(NoRow, FALSE, {}, FALSE)
    /\ mh = InitMH
    /\ gh = NoOp
    /\ dl = InitDL(DaemonScope)
    /\ ls = NoStorage
    /\ app = NoApp

NextDaemon ==
    \/ StartDownload
    \/ RestoreDownloader
    \/ PauseDownload
    \/ StopDownload
    \/ StopUpload
    \/ PauseUpload
    \/ MigrateDownload
    \/ DoUpdate
    \/ MetainfoArrives
    \/ MetainfoError
    \/ TorrentSeeds
    \/ RetryFires
    \/ OnHeaders
    \/ Receive
    \/ OnDownloadFinished
    \/ OnDownloadError
    \/ PollFires

SpecDaemon == InitDaemon /\ [][NextDaemon]_vars

\* HTTP downloads: one download id is started, paused, stopped and restored;
\* the saved downloader has any recorded size and any partial file.
HttpScope ==
    [whats |-> {[kind |-> "http", url |-> "http", hash |-> 0,
                 enc |-> "none"]},
     dlids |-> {1},
     restores |-> [kind : {"http"}, url : {"http"}, dlid : {1}, hash : {0},
                   magnet : {NoMagnet}, state : {"downloading", "paused"},
                   currentSize : 0..MaxSize, file : -1..MaxSize,
                   retryCount : {-1}, metainfo : {"none"}],
     fails |-> MaxFails, frd |-> FALSE, watch |-> {"started", "fired"}]

InitHttp ==
    /\ db = InitDB(NoRow, FALSE, {}, FALSE)
    /\ mh = InitMH
    /\ gh = NoOp
    /\ dl = InitDL(HttpScope)
    /\ ls = NoStorage
    /\ app = NoApp

NextHttp ==
    \/ StartDownload
    \/ RestoreDownloader
    \/ PauseDownload
    \/ StopDownload
    \/ RetryFires
    \/ OnHeaders
    \/ Receive
    \/ OnDownloadFinished
    \/ OnDownloadError
    \/ PollFires
    \/ FileChanged

SpecHttp == InitHttp /\ [][NextHttp]_vars


\* Fast-resume data: two torrents are started and stopped while the engine
\* may fail to write their resume data.
FrdScope ==
    [whats |-> {[kind |-> "bt", url |-> "file", hash |-> h, enc |-> "none"] :
                   h \in Hashes},
     dlids |-> Dlids, restores |-> {}, fails |-> 0, frd |-> TRUE,
     watch |-> {"frd"}]

InitFrd ==
    /\ db = InitDB(NoRow, FALSE, {}, FALSE)
    /\ mh = InitMH
    /\ gh = NoOp
    /\ dl = InitDL(FrdScope)
    /\ ls = NoStorage
    /\ app = NoApp

NextFrd ==
    \/ StartDownload
    \/ PauseDownload
    \/ StopDownload
    \/ DoUpdate

SpecFrd == InitFrd /\ [][NextFrd]_vars

\* ------------------------------------------------ LiveStorage transactions
CallLS == [ls EXCEPT !.ran = << >>, !.reruns = 0, !.failed = << >>]

LStep(R) ==
    /\ ~R.stuck
    /\ ls' = R.S
    /\ UNCHANGED <<db, mh, gh, dl, app>>

\* a statement that changes the database: insert_obj, update_obj, remove_obj
ExecuteUpdate ==
    \E sql \in Sqls, ok \in BOOLEAN, auto \in BOOLEAN, rounds \in Rounds :
        /\ Len(ls.buf) < MaxStatements
        /\ LStep(_execute(CallLS, sql, TRUE, ok, auto, rounds))

\* a query
ExecuteSelect ==
    \E ok \in BOOLEAN, auto \in BOOLEAN, rounds \in Rounds :
        /\ ok => rounds = << >>
        /\ LStep(_execute(CallLS, SelectSql, FALSE, ok, auto, rounds))

\* on_event_finished
FinishTransaction ==
    \E do_commit \in BOOLEAN :
        /\ ls.buf # << >>
        /\ ls' = finish_transaction(CallLS, do_commit)
        /\ UNCHANGED <<db, mh, gh, dl, app>>

InitStore ==
    /\ db = InitDB(NoRow, FALSE, {}, FALSE)
    /\ mh = InitMH
    /\ gh = NoOp
    /\ dl = NoDaemon
    /\ ls = InitLS
    /\ app = NoApp

NextStore ==
    \/ ExecuteUpdate
    \/ ExecuteSelect
    \/ FinishTransaction

SpecStore == InitStore /\ [][NextStore]_vars

\* ------------------------------------------- LiveStorage schema upgrades
\* The files of a LiveStorage.  The content of a database file is a record:
\* version is the value stored under VERSION_KEY, level the schema the
\* tables really have, legacy whether the old-style table dtv_objects is
\* there.  vacuum is taken to keep the content.  A state U holds the file at
\* self.path (orig), the file the connection was switched to (work, NoFile:
\* none), the files of dbbackups, failed_upgrade_database, the
\* corrupt_database files and the upgrading_database files left behind;
\* before is the content of orig when the last run began, result what the
\* run ended with.
SchemaVersion == 82

FirstNewStyle == 80

MaxRuns == 3

Versions == (FirstNewStyle - 1)..(SchemaVersion + 1)

NoFile == [version |-> -1]

DbFile(version, legacy) ==
    [version |-> version, level |-> version, legacy |-> legacy]

DbFiles ==
    {DbFile(v, g) : v \in Versions, g \in BOOLEAN} \
        {DbFile(v, FALSE) : v \in Versions \cap (0..(FirstNewStyle - 1))}

InitFiles(file) ==
    [orig |-> file, work |-> NoFile, backups |-> {}, failed |-> NoFile,
     corrupt |-> {}, left |-> {}, before |-> file, result |-> "none",
     runs |-> 0]

_change_database_file(U, ver) ==
    [U EXCEPT !.backups = @ \cup {[ver |-> ver, file |-> U.orig]},
              !.work = U.orig]

_change_database_file_back(U) ==
    [U EXCEPT !.orig = U.work, !.work = NoFile]

\* an exception leaves the file the connection was switched to behind
Raised(U, error) ==
    [U |-> [U EXCEPT !.left = IF U.work = NoFile THEN @ ELSE @ \cup {U.work},
                     !.work = NoFile],
     raised |-> error]

Returned(U) == [U |-> U, raised |-> "none"]

\* convert20database.convert, then _set_version(80); keeps: the conversion
\* leaves dtv_objects in place
Convert(U, fail, keeps) ==
    IF fail = "convert"
    THEN Raised([U EXCEPT !.work.level = FirstNewStyle], "Exception")
    ELSE Returned(_change_database_file_back(
             [U EXCEPT !.work = DbFile(FirstNewStyle, keeps)]))

_upgrade_20_database(U, fail, keeps) ==
    IF ~U.orig.legacy THEN Returned(U)
    ELSE IF U.orig.version >= FirstNewStyle
    THEN Returned([U EXCEPT !.orig.legacy = FALSE])
    ELSE Convert(_change_database_file(U, "pre80"), fail, keeps)

\* databaseupgrade.new_style_upgrade, then _set_version(); done: the steps
\* made before the one that fails
NewStyle(U, current_version, fail, done) ==
    IF fail = "new_style"
    THEN Raised([U EXCEPT !.work.level =
                     IF current_version + done < SchemaVersion
                     THEN current_version + done ELSE SchemaVersion - 1],
                "Exception")
    ELSE Returned(_change_database_file_back(
             [U EXCEPT !.work.level = SchemaVersion,
                       !.work.version = SchemaVersion]))

AfterLegacy(R, fail, done) ==
    IF R.raised # "none" THEN R
    ELSE NewStyle(_change_database_file(R.U, ToString(R.U.orig.version)),
                  R.U.orig.version, fail, done)

_upgrade_database(U, fail, keeps, done) ==
    IF U.orig.version > SchemaVersion THEN Raised(U, "DatabaseTooNewError")
    ELSE IF U.orig.version < SchemaVersion
    THEN AfterLegacy(_upgrade_20_database(U, fail, keeps), fail, done)
    ELSE Returned(U)

_backup_failed_upgrade_db(U) == [U EXCEPT !.failed = U.orig]

\* save_invalid_db renames the file, _init_database makes a new one
reset_database(U) ==
    [U EXCEPT !.corrupt = @ \cup {U.orig},
              !.orig = DbFile(SchemaVersion, FALSE)]

HandleChoice(U, choice) ==
    IF choice = "START_FRESH"
    THEN [reset_database(U) EXCEPT !.result = "fresh"]
    ELSE IF choice = "SUBMIT_REPORT"
    THEN [U EXCEPT !.result = "UpgradeErrorSendCrashReport"]
    ELSE [U EXCEPT !.result = "UpgradeError"]

_handle_upgrade_error(U, choice) ==
    HandleChoice(_backup_failed_upgrade_db(U), choice)

UpgradeOutcome(R, choice) ==
    IF R.raised = "none" THEN [R.U EXCEPT !.result = "upgraded"]
    ELSE IF R.raised = "DatabaseTooNewError"
    THEN [R.U EXCEPT !.result = "DatabaseTooNewError"]
    ELSE _handle_upgrade_error(R.U, choice)

upgrade_database(U, fail, keeps, done, choice) ==
    UpgradeOutcome(_upgrade_database(U, fail, keeps, done), choice)

\* the program is started on the files the last run left
UpgradeDatabase ==
    \E fail \in {"none", "convert", "new_style"}, keeps \in BOOLEAN,
       done \in 0..(SchemaVersion - FirstNewStyle),
       choice \in {"QUIT", "SUBMIT_REPORT", "START_FRESH"} :
        /\ ls.runs < MaxRuns
        /\ ls' = upgrade_database(
                     [ls EXCEPT !.before = ls.orig, !.runs = @ + 1],
                     fail, keeps, done, choice)
        /\ UNCHANGED <<db, mh, gh, dl, app>>

InitUpgrade ==
    /\ db = InitDB(NoRow, FALSE, {}, FALSE)
    /\ mh = InitMH
    /\ gh = NoOp
    /\ dl = NoDaemon
    /\ \E file \in DbFiles : ls = InitFiles(file)
    /\ app = NoApp

NextUpgrade == UpgradeDatabase

SpecUpgrade == InitUpgrade /\ [][NextUpgrade]_vars


\* ------------------------------------------------- commands naming ids
InitObjs(feed_folder, playlist_folder, store, is_default, torrent) ==
    [i \in ObjIds |->
        IF Klasses[i] = "feed" THEN [k |-> "feed", folder |-> feed_folder]
        ELSE IF Klasses[i] = "playlist"
        THEN [k |-> "playlist", folder |-> playlist_folder]
        ELSE IF Klasses[i] = "site"
        THEN [k |-> "site", store |-> store, is_default |-> is_default]
        ELSE IF Klasses[i] = "item"
        THEN [k |-> "item", torrent |-> torrent, uploading |-> FALSE]
        ELSE [k |-> Klasses[i]]]

InitCommands ==
    /\ db = InitDB(NoRow, FALSE, {}, FALSE)
    /\ mh = InitMH
    /\ gh = NoOp
    /\ dl = NoDaemon
    /\ ls = NoStorage
    /\ \E feed_folder \in {0, IdOf("feed-folder")},
          playlist_folder \in {0, IdOf("playlist-folder")},
          store \in {"none", "visible"}, is_default \in BOOLEAN,
          torrent \in BOOLEAN :
          app = [objs |-> InitObjs(feed_folder, playlist_folder, store,
                                   is_default, torrent),
                 feed_order |-> <<IdOf("feed-folder"), IdOf("feed")>>,
                 playlist_order |-> <<IdOf("playlist-folder"),
                                      IdOf("playlist")>>,
                 call |-> NoCall]

CallApp == [app EXCEPT !.call = NoCall]

AStep(A) ==
    /\ app' = [A EXCEPT !.call.changed = Domain(A) # Domain(app)]
    /\ UNCHANGED <<db, mh, gh, dl, ls>>

DeleteFeed ==
    \E id \in ObjIds, is_folder \in BOOLEAN :
        AStep(handle_delete_feed(CallApp, id, is_folder))

DeletePlaylist ==
    \E id \in ObjIds, is_folder \in BOOLEAN :
        AStep(handle_delete_playlist(CallApp, id, is_folder))

DeleteSite == \E id \in ObjIds : AStep(handle_delete_site(CallApp, id))

SetGuideVisible ==
    \E id \in ObjIds, visible \in BOOLEAN :
        AStep(handle_set_guide_visible(CallApp, id, visible))

StartUpload == \E id \in ObjIds : AStep(handle_start_upload(CallApp, id))

\* the lists of a TabsReordered message for one type: the tabs at the top
\* level, and the tabs in the folder
TabMsgs(info_type) ==
    LET c == ChildId(info_type)
        f == FolderId(info_type)
    IN {[top |-> top, children |-> << >>] :
            top \in {<< >>, <<c>>, <<f>>, <<c, f>>, <<f, c>>}}
       \cup {[top |-> <<f>>, children |-> <<c>>]}

TabsReorderedCommand ==
    \E types \in {<<"feed">>, <<"playlist">>, <<"feed", "playlist">>,
                  <<"playlist", "feed">>} :
        \E message \in [{types[k] : k \in 1..Len(types)} ->
                            TabMsgs("feed") \cup TabMsgs("playlist")] :
            /\ \A k \in 1..Len(types) :
                   message[types[k]] \in TabMsgs(types[k])
            /\ AStep(handle_tabs_reordered(CallApp, message, types))

NextCommands ==
    \/ DeleteFeed
    \/ DeletePlaylist
    \/ DeleteSite
    \/ SetGuideVisible
    \/ StartUpload
    \/ TabsReorderedCommand

SpecCommands == InitCommands /\ [][NextCommands]_vars

\* ------------------------------------------------- playlist reordering
InitPlaylist ==
    /\ db = InitDB(NoRow, FALSE, {}, FALSE)
    /\ mh = InitMH
    /\ gh = NoOp
    /\ dl = NoDaemon
    /\ ls = NoStorage
    /\ \E kind \in {"playlist", "playlist-folder", "none"},
          S \in SUBSET ItemIds :
          \E items \in Orders(S) :
              app = [kind |-> kind, items |-> items, call |-> NoReorder]

\* found: message.id is the id of the playlist
PlaylistReordered ==
    \E found \in BOOLEAN, item_ids \in IdLists :
        \E outcome \in Orders(ToSet(app.items)) :
            /\ app' = handle_playlist_reordered(
                          [app EXCEPT !.call = [NoReorder EXCEPT
                                                   !.item_ids = item_ids,
                                                   !.before = app.items]],
                          found, item_ids, outcome)
            /\ UNCHANGED <<db, mh, gh, dl, ls>>

NextPlaylist == PlaylistReordered

SpecPlaylist == InitPlaylist /\ [][NextPlaylist]_vars

\* ------------------------------------------------ metadata extraction
InitMovie ==
    /\ db = InitDB(NoRow, FALSE, {}, FALSE)
    /\ mh = InitMH
    /\ gh = NoOp
    /\ dl = NoDaemon
    /\ ls = NoStorage
    /\ \E items \in [MovieIds -> MovieItems] : app = InitUpdater(items)

MStep(U) ==
    /\ app' = U
    /\ UNCHANGED <<db, mh, gh, dl, ls>>

RequestUpdate ==
    \E i \in MovieIds :
        /\ app.items[i].exists
        /\ MStep(request_update(app, i))

\* the worker process answers a task once, with a result or with an error
Callback(i) ==
    \E mediatype \in {"video", "audio", "None"}, duration \in Durations,
       flv \in BOOLEAN :
        /\ i \in app.in_progress
        /\ MStep(callback(app, i, mediatype, duration, flv))

Errback(i) ==
    /\ i \in app.in_progress
    /\ MStep(errback(app, i))

\* the item is removed from the database
RemoveMovie ==
    \E i \in MovieIds :
        /\ app.items[i].exists
        /\ MStep([app EXCEPT !.items[i].exists = FALSE])

Shutdown ==
    /\ ~app.in_shutdown
    /\ MStep(shutdown(app))

NextMovie ==
    \/ RequestUpdate
    \/ \E i \in MovieIds : Callback(i)
    \/ \E i \in MovieIds : Errback(i)
    \/ RemoveMovie
    \/ Shutdown

SpecMovie ==
    /\ InitMovie
    /\ [][NextMovie]_vars
    /\ \A i \in MovieIds : WF_vars(Callback(i) \/ Errback(i))

\* ------------------------------------------- command-line arguments
MaxArgs == 3

\* a .torrent path, an .opml path, an http URL, a local media path given as
\* a file:// URL, a path that does not exist, a corrupt torrent
SomeArgs ==
    {[wrapped |-> FALSE, scheme |-> "", ext |-> ".torrent", exists |-> TRUE,
      torrent |-> "ok"],
     [wrapped |-> FALSE, scheme |-> "", ext |-> ".opml", exists |-> TRUE,
      torrent |-> "ok"],
     [wrapped |-> FALSE, scheme |-> "http:", ext |-> "", exists |-> FALSE,
      torrent |-> "ok"],
     [wrapped |-> TRUE, scheme |-> "", ext |-> ".avi", exists |-> TRUE,
      torrent |-> "ok"],
     [wrapped |-> FALSE, scheme |-> "", ext |-> ".avi", exists |-> FALSE,
      torrent |-> "ok"],
     [wrapped |-> FALSE, scheme |-> "", ext |-> ".tor", exists |-> TRUE,
      torrent |-> "ValueError"]}

AllArgs ==
    [wrapped : BOOLEAN, scheme : Schemes, ext : Exts, exists : BOOLEAN,
     torrent : {"ok", "ValueError", "IOError"}]

\* the arguments of one call, numbered as they arrive
Numbered(args, from) ==
    [k \in 1..Len(args) |->
        [wrapped |-> args[k].wrapped, scheme |-> args[k].scheme,
         ext |-> args[k].ext, exists |-> args[k].exists,
         torrent |-> args[k].torrent, n |-> from + k]]

ArgLists(S, n) == UNION {[1..k -> S] : k \in 1..n}

CStep(C, args) ==
    /\ app' = [C EXCEPT !.arrived = @ \o args]
    /\ UNCHANGED <<db, mh, gh, dl, ls>>

InitCmdline ==
    /\ db = InitDB(NoRow, FALSE, {}, FALSE)
    /\ mh = InitMH
    /\ gh = NoOp
    /\ dl = NoDaemon
    /\ ls = NoStorage
    /\ app = InitCommandLine

ParseCommandLineArgs ==
    \E list \in ArgLists(SomeArgs, 2) :
        /\ Len(app.arrived) + Len(list) <= MaxArgs
        /\ CStep(parse_command_line_args(
                     app, Numbered(list, Len(app.arrived))),
                 Numbered(list, Len(app.arrived)))

SetCommandLineArgs ==
    \E list \in ArgLists(SomeArgs, 1) :
        /\ ~app._started_up
        /\ Len(app.arrived) + Len(list) <= MaxArgs
        /\ CStep(set_command_line_args(
                     app, Numbered(list, Len(app.arrived))),
                 Numbered(list, Len(app.arrived)))

Startup ==
    /\ ~app._started_up
    /\ CStep(startup(app), << >>)

NextCmdline ==
    \/ ParseCommandLineArgs
    \/ SetCommandLineArgs
    \/ Startup

SpecCmdline == InitCmdline /\ [][NextCmdline]_vars

\* ------------------------------------------------- classification
\* one call of parse_command_line_args after startup: any argument first,
\* and one of the representative arguments or none after it
InitRoute ==
    /\ db = InitDB(NoRow, FALSE, {}, FALSE)
    /\ mh = InitMH
    /\ gh = NoOp
    /\ dl = NoDaemon
    /\ ls = NoStorage
    /\ \E first \in AllArgs, rest \in ArgLists(SomeArgs, 1) \cup {<< >>} :
          app = [_started_up |-> TRUE, _command_line_args |-> << >>,
                 arrived |-> << >>, acted |-> << >>,
                 args |-> Numbered(<<first>> \o rest, 0)]

Classify ==
    /\ app.arrived = << >>
    /\ CStep(parse_command_line_args(app, app.args), app.args)

NextRoute == Classify

SpecRoute == InitRoute /\ [][NextRoute]_vars

\* --------------------------------------------------- adding local videos
InitVideos ==
    /\ db = InitDB(NoRow, FALSE, {}, FALSE)
    /\ mh = InitMH
    /\ gh = NoOp
    /\ dl = NoDaemon
    /\ ls = NoStorage
    /\ \E in_memory \in BOOLEAN : app = InitLibrary(in_memory)

VStep(L) ==
    /\ Len(L.items) <= MaxVideos
    /\ app' = L
    /\ UNCHANGED <<db, mh, gh, dl, ls>>

CallLibrary == [app EXCEPT !.raised = "none"]

AddVideo == \E path \in RawPaths : VStep(add_video(CallLibrary, path))

AddVideos ==
    \E paths \in UNION {[1..n -> RawPaths] : n \in 1..MaxPaths},
       exists \in SUBSET {abspath(p) : p \in RawPaths},
       slice \in 1..MaxPaths :
        VStep(add_videos(CallLibrary, paths, exists, slice))

\* the user removes a video from the library: the item is marked deleted
DeleteVideo ==
    \E k \in 1..Len(app.items) :
        /\ ~app.items[k].deleted
        /\ VStep([CallLibrary EXCEPT !.items[k].deleted = TRUE])

NextVideos ==
    \/ AddVideo
    \/ AddVideos
    \/ DeleteVideo

SpecVideos == InitVideos /\ [][NextVideos]_vars
\* ------------------------------------------------------ tab list batching
InitTabs ==
    /\ db = InitDB(NoRow, FALSE, {}, FALSE)
    /\ mh = InitMH
    /\ gh = NoOp
    /\ dl = NoDaemon
    /\ ls = NoStorage
    /\ app = InitTabList

TStep(T) ==
    /\ Len(T.log) <= MaxLog
    /\ Len(T.scopes) <= MaxDepth
    /\ app' = T
    /\ UNCHANGED <<db, mh, gh, dl, ls>>

\* a call made outside every scope starts a new episode
CallTabList == IF app.scopes = << >> THEN [app EXCEPT !.log = << >>] ELSE app

EnterAdding == TStep(adding_enter(CallTabList))

ExitAdding ==
    /\ app.scopes # << >>
    /\ app.scopes[Len(app.scopes)] = "adding"
    /\ TStep(adding_exit(app))

EnterRemoving == TStep(removing_enter(CallTabList))

ExitRemoving ==
    /\ app.scopes # << >>
    /\ app.scopes[Len(app.scopes)] = "removing"
    /\ TStep(removing_exit(app))

AddTab == \E tab \in TabNames : TStep(add(CallTabList, tab))

ExtendTabs ==
    \E tabs \in [1..2 -> TabNames] : TStep(extend(CallTabList, tabs))

RemoveTab ==
    \E name \in app.iter_map : TStep(tab_remove(CallTabList, name))

NextTabs ==
    \/ EnterAdding
    \/ ExitAdding
    \/ EnterRemoving
    \/ ExitRemoving
    \/ AddTab
    \/ ExtendTabs
    \/ RemoveTab

SpecTabs == InitTabs /\ [][NextTabs]_vars

\* -------------------------------------------------- library list auto tabs
InitAuto ==
    /\ db = InitDB(NoRow, FALSE, {}, FALSE)
    /\ mh = InitMH
    /\ gh = NoOp
    /\ dl = NoDaemon
    /\ ls = NoStorage
    /\ app = InitLibraryTabList

CallAuto(call) == [app EXCEPT !.log = << >>, !.call = call]

\* update_count: the backend reports a new count for an auto tab
UpdateAutoTabCount ==
    \E name \in AutoTabs, count \in 0..MaxCount :
        /\ count # app.counts[name]
        /\ app' = update_auto_tab_count(
                      [CallAuto("update_auto_tab_count")
                           EXCEPT !.counts[name] = count], name, count)
        /\ UNCHANGED <<db, mh, gh, dl, ls>>

\* the user selects a tab that is shown (single selection): the selection
\* is updated and the view signals the change
SelectTab ==
    \E name \in app.iter_map \ app.selected_ids :
        /\ app' = on_selection_changed(
                      [CallAuto("on_selection_changed")
                           EXCEPT !.selected_ids = {name}, !.blinked = {}])
        /\ UNCHANGED <<db, mh, gh, dl, ls>>

\* the selection moves to another tab list
DeselectTab ==
    /\ app.selected_ids # {}
    /\ app' = on_deselected(
                  [CallAuto("on_deselected")
                       EXCEPT !.selected_ids = {}, !.blinked = {}])
    /\ UNCHANGED <<db, mh, gh, dl, ls>>

BlinkTab ==
    \E tab_id \in AutoTabs :
        /\ app' = blink_tab(
                      [CallAuto("blink_tab")
                           EXCEPT !.blinked = @ \cup {tab_id}], tab_id)
        /\ UNCHANGED <<db, mh, gh, dl, ls>>

NextAuto ==
    \/ UpdateAutoTabCount
    \/ SelectTab
    \/ DeselectTab
    \/ BlinkTab

SpecAuto == InitAuto /\ [][NextAuto]_vars

\* ------------------------------------------------ rows of the Connect list
InitConnect ==
    /\ db = InitDB(NoRow, FALSE, {}, FALSE)
    /\ mh = InitMH
    /\ gh = NoOp
    /\ dl = NoDaemon
    /\ ls = NoStorage
    /\ app = InitHideableTabList

CallConnect == [app EXCEPT !.log = << >>]

\* a device appears
DeviceAdd ==
    \E info \in DeviceInfos :
        /\ info.id \notin app.iter_map
        /\ app' = DeviceTabListHandler_add(CallConnect, info)
        /\ UNCHANGED <<db, mh, gh, dl, ls>>

\* a device changes (mounted, unmounted, renamed)
DeviceUpdate ==
    \E info \in DeviceInfos :
        /\ app' = DeviceTabListHandler_update(CallConnect, info)
        /\ UNCHANGED <<db, mh, gh, dl, ls>>

\* a share appears, then its playlist under it
ShareAdd ==
    \E id \in ShareIds :
        /\ id \notin app.iter_map
        /\ app' = HideableTabList_add(CallConnect, id, RootId)
        /\ UNCHANGED <<db, mh, gh, dl, ls>>

PlaylistAdd ==
    \E id \in ShareIds :
        /\ id \in app.iter_map
        /\ PlaylistId(id) \notin app.iter_map
        /\ app' = HideableTabList_add(CallConnect, PlaylistId(id), id)
        /\ UNCHANGED <<db, mh, gh, dl, ls>>

\* tabs are removed: the backend names the tabs that went away, a parent
\* before or after its children
RemoveTabs ==
    \E id_list \in UNION {[1..n -> TabIds] : n \in 1..2} :
        /\ app' = HideableTabList_remove(CallConnect, id_list)
        /\ UNCHANGED <<db, mh, gh, dl, ls>>

NextConnect ==
    \/ DeviceAdd
    \/ DeviceUpdate
    \/ ShareAdd
    \/ PlaylistAdd
    \/ RemoveTabs

SpecConnect == InitConnect /\ [][NextConnect]_vars

\* ------------------------------------------------- sharing on and off
InitSharing ==
    /\ db = InitDB(NoRow, FALSE, {}, FALSE)
    /\ mh = InitMH
    /\ gh = NoOp
    /\ dl = NoDaemon
    /\ ls = NoStorage
    /\ app = InitSharingManager

SStep(M) ==
    /\ Len(M.threads) <= MaxThreads
    /\ Len(M.pipe) <= MaxPipe
    /\ app' = M
    /\ UNCHANGED <<db, mh, gh, dl, ls>>

\* the preferences changed: the event loop runs twiddle_sharing
TwiddleSharing ==
    \E sharing \in BOOLEAN, discoverable \in BOOLEAN, made \in BOOLEAN :
        SStep(twiddle_sharing([app EXCEPT !.call = "twiddle_sharing"],
                              sharing, discoverable, made))

SharingShutdown ==
    SStep(sharing_shutdown([app EXCEPT !.call = "shutdown"]))

\* a server thread finds the control socket readable
ServerThreadRecv ==
    \E t \in 1..Len(app.threads), n \in 1..Len(app.pipe) :
        /\ app.threads[t] = "running"
        /\ SStep(server_thread(app, t, n))

NextSharing ==
    \/ TwiddleSharing
    \/ SharingShutdown
    \/ ServerThreadRecv

SpecSharing == InitSharing /\ [][NextSharing]_vars

\* ------------------------------------------------------ share discovery
InitDiscovery ==
    /\ db = InitDB(NoRow, FALSE, {}, FALSE)
    /\ mh = InitMH
    /\ gh = NoOp
    /\ dl = NoDaemon
    /\ ls = NoStorage
    /\ app = InitSharingTracker

\* the browse thread reports a share that appeared or went away
MdnsCallback ==
    \E added \in BOOLEAN, share_id \in ShareIdents,
       local_port \in {"None", "3689"}, addresses \in BOOLEAN :
        /\ Len(app.sent) < MaxSeen
        /\ app' = mdns_callback_backend(app, added, share_id, local_port,
                                        addresses)
        /\ UNCHANGED <<db, mh, gh, dl, ls>>

NextDiscovery == MdnsCallback

SpecDiscovery == InitDiscovery /\ [][NextDiscovery]_vars

\* ------------------------------------------------- connecting to a share
InitShares ==
    /\ db = InitDB(NoRow, FALSE, {}, FALSE)
    /\ mh = InitMH
    /\ gh = NoOp
    /\ dl = NoDaemon
    /\ ls = NoStorage
    /\ app = InitShareTrackers

CallShares == [app EXCEPT !.raised = "none"]

\* the user opens a share's tab
GetTracker ==
    \E share_id \in ShareNames :
        /\ app.trackers[share_id] = 0
        /\ Len(app.impls) < MaxTrackers
        /\ app' = get_tracker(CallShares, share_id)
        /\ UNCHANGED <<db, mh, gh, dl, ls>>

\* the user ejects a share that has a tab
EjectShare ==
    \E share_id \in ShareNames :
        /\ app.trackers[share_id] # 0
        /\ app' = eject(CallShares, share_id)
        /\ UNCHANGED <<db, mh, gh, dl, ls>>

\* the connection thread of a tracker ends: connected, or IOError
ClientConnected ==
    \E impl \in 1..Len(app.impls) :
        /\ app.impls[impl].connect = "pending"
        /\ app' = client_connect_callback(CallShares, impl)
        /\ UNCHANGED <<db, mh, gh, dl, ls>>

ClientConnectError ==
    \E impl \in 1..Len(app.impls) :
        /\ app.impls[impl].connect = "pending"
        /\ app' = client_connect_error_callback(CallShares, impl)
        /\ UNCHANGED <<db, mh, gh, dl, ls>>

NextShares ==
    \/ GetTracker
    \/ EjectShare
    \/ ClientConnected
    \/ ClientConnectError

SpecShares == InitShares /\ [][NextShares]_vars

\* ----------------------------------------------- the shared library mirror
InitMirror ==
    /\ db = InitDB(NoRow, FALSE, {}, FALSE)
    /\ mh = InitMH
    /\ gh = NoOp
    /\ dl = NoDaemon
    /\ ls = NoStorage
    /\ \E lib \in Libraries :
           /\ OneEach(lib.items)
           /\ OneEach(lib.playlists)
           /\ Cardinality(lib.playlists) <= 1
           /\ app = InitBackend(lib)

\* the library changes and the info updater reports it
BStep(B, lib) ==
    /\ app' = [B EXCEPT !.lib = lib, !.raised = "none"]
    /\ UNCHANGED <<db, mh, gh, dl, ls>>

ItemAdded ==
    \E x \in [id : MediaIds, name : MediaNames] :
        /\ \A r \in app.lib.items : r.id # x.id
        /\ BStep(handle_items_changed(app, {x}, {}, {}),
                 [app.lib EXCEPT !.items = @ \cup {x}])

ItemChanged ==
    \E x \in [id : MediaIds, name : MediaNames] :
        /\ \E r \in app.lib.items : r.id = x.id /\ r # x
        /\ BStep(handle_items_changed(app, {}, {x}, {}),
                 [app.lib EXCEPT !.items = Put(@, x)])

ItemRemoved ==
    \E r \in app.lib.items :
        BStep(handle_items_changed(app, {}, {}, {r.id}),
              [app.lib EXCEPT !.items = @ \ {r}])

PlaylistAdded ==
    \E x \in [id : SharedPlaylistIds, item_ids : SUBSET MediaIds] :
        /\ \A r \in app.lib.playlists : r.id # x.id
        /\ BStep(handle_playlist_added(app, {x}),
                 [app.lib EXCEPT !.playlists = @ \cup {x}])

PlaylistChanged ==
    \E x \in [id : SharedPlaylistIds, item_ids : SUBSET MediaIds] :
        /\ \E r \in app.lib.playlists : r.id = x.id /\ r # x
        /\ BStep(handle_playlist_changed(app, {x}),
                 [app.lib EXCEPT !.playlists = Put(@, x)])

PlaylistRemoved ==
    \E r \in app.lib.playlists :
        BStep(handle_playlist_removed(app, {r.id}),
              [app.lib EXCEPT !.playlists = @ \ {r}])

\* a client asks for the items of a playlist the server lists
GetItems ==
    \E r \in app.daap_playlists :
        /\ app' = backend_get_items([app EXCEPT !.raised = "none"], r.id)
        /\ UNCHANGED <<db, mh, gh, dl, ls>>

NextMirror ==
    \/ ItemAdded
    \/ ItemChanged
    \/ ItemRemoved
    \/ PlaylistAdded
    \/ PlaylistChanged
    \/ PlaylistRemoved
    \/ GetItems

SpecMirror == InitMirror /\ [][NextMirror]_vars

\* --------------------------------------------------- worker task priority
InitPriority ==
    /\ db = InitDB(NoRow, FALSE, {}, FALSE)
    /\ mh = InitMH
    /\ gh = NoOp
    /\ dl = NoDaemon
    /\ ls = NoStorage
    /\ app = InitWorker

WStep(W) ==
    /\ app' = W
    /\ UNCHANGED <<db, mh, gh, dl, ls>>

\* a free thread takes a waiting task at once: time does not pass, and no
\* later task is sent, while a thread is free and a task waits
Settled ==
    /\ \A t \in 1..ThreadCount :
           app.threads[t].task = 0 => app.pending = << >>
    /\ \A t \in 1..ThreadCount :
           app.threads[t].task # 0 => app.threads[t].left > 0

SendSlow ==
    \E time \in SlowTimes :
        /\ Len(app.sent) < SlowCount
        /\ WStep(worker_send(app, SlowRunningTask(time)))

SendFeedparser ==
    /\ Len(app.sent) = SlowCount
    /\ Settled
    /\ WStep(worker_send(app, FeedparserTask))

WorkerTake ==
    \E t \in 1..ThreadCount :
        /\ app.alive
        /\ app.threads[t].task = 0
        /\ app.pending # << >>
        /\ WStep(worker_take(app, t))

WorkerTick ==
    /\ app.alive
    /\ Settled
    /\ \E t \in 1..ThreadCount : app.threads[t].task # 0
    /\ WStep(worker_tick(app))

WorkerFinish ==
    \E t \in 1..ThreadCount :
        /\ app.alive
        /\ app.threads[t].task # 0
        /\ app.threads[t].left = 0
        /\ WStep(worker_finish(app, t))

NextPriority ==
    \/ SendSlow
    \/ SendFeedparser
    \/ WorkerTake
    \/ WorkerTick
    \/ WorkerFinish

SpecPriority == InitPriority /\ [][NextPriority]_vars

\* ------------------------------------------------- worker process crashes
InitCrash ==
    /\ db = InitDB(NoRow, FALSE, {}, FALSE)
    /\ mh = InitMH
    /\ gh = NoOp
    /\ dl = NoDaemon
    /\ ls = NoStorage
    /\ app = InitWorker

\* the subprocess is killed from outside
WorkerTerminate ==
    /\ app.alive
    /\ app.kills < MaxKills
    /\ WStep(worker_terminate(app))

WorkerRestart ==
    /\ ~app.alive
    /\ WStep(worker_restart(app))

NextCrash ==
    \/ SendSlow
    \/ SendFeedparser
    \/ WorkerTake
    \/ WorkerTick
    \/ WorkerFinish
    \/ WorkerTerminate
    \/ WorkerRestart

\* the threads of a live subprocess run, and the manager watches the
\* subprocess
SpecCrash ==
    /\ InitCrash
    /\ [][NextCrash]_vars
    /\ WF_vars(WorkerTake)
    /\ WF_vars(WorkerTick)
    /\ WF_vars(WorkerFinish)
    /\ WF_vars(WorkerRestart)

\* --------------------------------------- a view tracker and its frontend
InitFrontend(view) ==
    [M |-> send_initial_list([InitMH EXCEPT !.state = "tracking"],
                             [mem |-> [id \in Ids |-> [b |-> 0]]],
                             SortedSeq(view)),
     mem |-> [id \in Ids |-> [b |-> 0]],
     view |-> view, known |-> view, seen |-> << >>]

InitKnown ==
    /\ db = InitDB(NoRow, FALSE, {}, FALSE)
    /\ mh = InitMH
    /\ gh = NoOp
    /\ dl = NoDaemon
    /\ ls = NoStorage
    /\ \E view \in SUBSET Ids : app = InitFrontend(view)

Tracked == [app.M EXCEPT !.flushes = << >>]

\* the calls queued on the event loop and the add order stay bounded
Bounded(F) ==
    /\ F.M.queue <= MaxQueue
    /\ Len(F.M.added_order) <= MaxAddedOrder

\* an object enters the view: the database tracker signals added
ObjectAdded ==
    \E id \in Ids \ app.view :
        /\ app' = Frontend(app, on_object_added(Tracked, app, id),
                           app.view \cup {id}, app.mem)
        /\ Bounded(app')
        /\ UNCHANGED <<db, mh, gh, dl, ls>>

\* an object of the view leaves it or is removed
ObjectRemoved ==
    \E id \in app.view :
        /\ app' = Frontend(app, on_object_id_removed(Tracked, id),
                           app.view \ {id}, app.mem)
        /\ Bounded(app')
        /\ UNCHANGED <<db, mh, gh, dl, ls>>

\* an object of the view changes
ObjectChanged ==
    \E id \in app.view, value \in Vals :
        /\ value # app.mem[id].b
        /\ app' = Frontend(app, on_object_changed(Tracked, id), app.view,
                           [app.mem EXCEPT ![id].b = value])
        /\ Bounded(app')
        /\ UNCHANGED <<db, mh, gh, dl, ls>>

\* the event loop runs the queued send_messages call
SendMessages ==
    /\ app.M.queue > 0
    /\ app' = Frontend(app, [send_messages(Tracked, app) EXCEPT !.queue = @ - 1],
                       app.view, app.mem)
    /\ UNCHANGED <<db, mh, gh, dl, ls>>

NextKnown ==
    \/ ObjectAdded
    \/ ObjectRemoved
    \/ ObjectChanged
    \/ SendMessages

SpecKnown == InitKnown /\ [][NextKnown]_vars

\* ------------------------------------- bulk-write scopes that may fail
\* Objects are created, changed and removed inside and outside bulk-write
\* scopes; the storage may raise while a scope is committed.  gh records
\* the finish() call of the last step.
ChangeItem ==
    \E id \in db.object_map, name \in Fields, value \in Vals :
        /\ klass(db, id) = "item"
        /\ Step(signal_change(SetAttribute(Fresh(db), id, name, value), id,
                              TRUE), NoOp)

FinishReturns ==
    /\ db.active
    /\ Step(finish(db), [op |-> "finish", raised |-> FALSE])

FinishRaises ==
    /\ db.active
    /\ DictValues(db.to_insert) \cup DictValues(db.to_remove) # {}
    /\ db' = Settle([finish_interrupted(db) EXCEPT !.err = "none"], mh)
    /\ gh' = [op |-> "finish", raised |-> TRUE]
    /\ UNCHANGED <<mh, dl, ls, app>>

NextFinish ==
    \/ Create
    \/ ChangeItem
    \/ Remove
    \/ BulkStart
    \/ FinishReturns
    \/ FinishRaises

SpecFinish == Init /\ [][NextFinish]_vars


\* =============================================================== claims
\* C1: after every insert, signal_change or removal, made directly or in a
\* bulk-write scope, the id set of each database tracker equals what a fresh
\* query of its view returns.
C1_TrackerMatchesQuery ==
    \A t \in db.linked : db.cur[t] = query_ids(db.rows, t)

\* C1 for the tracker of the view that has no join
C1_PlainTrackerMatchesQuery ==
    "t1" \in db.linked => db.cur["t1"] = query_ids(db.rows, "t1")

\* C11: every lookup of an object by its id that succeeds returns the first
\* instance constructed for that id, so that repeated lookups return the same
\* instance; the identity map holds, under each id, that instance and no
\* other, and no second instance is ever constructed for an id.
C11_LookupReturnsSameInstance ==
    /\ \A id \in Ids : db.made[id] <= 1
    /\ \A id \in db.object_map : db.inst[id] = 1
    /\ (gh.op = "get_by_id" /\ gh.obj # 0) => gh.obj = 1

C11_Witness ==
    /\ gh.op = "get_by_id"
    /\ gh.obj = 1
    /\ ~gh.loaded
    /\ db.lastID = MaxId

\* C8: once remove() has returned outside a bulk-write scope, or the scope it
\* was called in has finished, the object has no storage row, is not in the
\* identity map, its 'removed' signal was fired and no tracker holds its id.
C8_RemovedIsGone ==
    ~db.active =>
        \A id \in db.removed_called :
            /\ db.rows[id] = NoRow
            /\ id \notin db.object_map
            /\ id \in db.sig_removed
            /\ \A t \in db.linked : id \notin db.cur[t]

\* C8 without the 'removed' signal
C8_RemovedIsGoneSilently ==
    ~db.active =>
        \A id \in db.removed_called :
            /\ db.rows[id] = NoRow
            /\ id \notin db.object_map
            /\ \A t \in db.linked : id \notin db.cur[t]

\* C9: an object that called remove() in its constructor is not among the
\* objects a View query returns, is never reported 'added' by a tracker, and
\* has no storage row once the constructor, or the bulk-write scope around
\* it, has finished.
C9_SelfRemovedInvisible ==
    \A id \in db.self_removed :
        /\ gh.op = "query" => id \notin gh.ids
        /\ id \notin db.self_added
        /\ ~db.active => db.rows[id] = NoRow

\* C9 for the objects made by new construction
C9_NewSelfRemovedInvisible ==
    \A id \in db.self_removed :
        ~db.restore_removes =>
            /\ gh.op = "query" => id \notin gh.ids
            /\ id \notin db.self_added
            /\ db.rows[id] = NoRow

\* C10: when only the field a was assigned before signal_change, the row's
\* column a holds the new value, column b is what it was, and no attribute
\* is marked changed afterwards.
C10_OnlyDirtyColumnWritten ==
    (gh.op = "signal_change" /\ gh.dirty = {"a"}) =>
        /\ db.rows[gh.id] # NoRow
        /\ db.rows[gh.id].a = db.mem[gh.id].a
        /\ db.rows[gh.id].b = gh.row.b
        /\ db.dirty[gh.id] = {}

\* C10 amended: the same, for signal_change(needs_save=True) on an object
\* that is not part of a bulk insert still to be committed.
C10_SavedOnlyDirtyColumnWritten ==
    (/\ gh.op = "signal_change"
     /\ gh.dirty = {"a"}
     /\ gh.needs_save
     /\ ~gh.will_insert) =>
        /\ db.rows[gh.id] # NoRow
        /\ db.rows[gh.id].a = db.mem[gh.id].a
        /\ db.rows[gh.id].b = gh.row.b
        /\ db.dirty[gh.id] = {}

C10_Witness ==
    /\ gh.op = "signal_change"
    /\ gh.dirty = {"a"}
    /\ gh.needs_save
    /\ ~gh.will_insert
    /\ db.rows[gh.id].a # gh.row.a
    /\ db.rows[gh.id].b = gh.row.b

\* the ids a change message names
Mentioned(msg) ==
    SeqIds(msg.added) \cup SeqIds(msg.changed) \cup Range(msg.removed)

\* C3: when an object was reported added and then removed since the buffers
\* were last sent, the message built from the buffers does not name its id.
C3_AddedThenRemovedIsSilent ==
    \A i \in DOMAIN mh.flushes : \A id \in Ids :
        mh.flushes[i].hist[id] = "ar" => id \notin Mentioned(mh.flushes[i].msg)

C3_Witness ==
    \E i \in DOMAIN mh.flushes : \E id \in Ids :
        /\ mh.flushes[i].hist[id] = "ar"
        /\ mh.flushes[i].sent

\* C4: when an object the frontend knows was reported changed and then
\* removed since the buffers were last sent, the message sent names it once
\* in its removed list and not in its changed list.
C4_ChangedThenRemovedSendsRemoval ==
    \A i \in DOMAIN mh.flushes : \A id \in Ids :
        mh.flushes[i].hist[id] = "cr" =>
            LET msg == mh.flushes[i].msg
            IN /\ mh.flushes[i].sent
               /\ Cardinality({j \in DOMAIN msg.removed : msg.removed[j] = id}) = 1
               /\ id \notin SeqIds(msg.changed)
               /\ id \notin SeqIds(msg.added)

C4_Witness ==
    \E i \in DOMAIN mh.flushes : \E id \in Ids :
        /\ mh.flushes[i].hist[id] = "cr"
        /\ id \in Range(mh.flushes[i].msg.removed)

\* C5: when an object was reported added and then changed since the buffers
\* were last sent, the message names it in its added list only, with the
\* values the object has when the message is built.
C5_AddedThenChangedSendsAddition ==
    \A i \in DOMAIN mh.flushes : \A id \in Ids :
        mh.flushes[i].hist[id] = "ac" =>
            LET msg == mh.flushes[i].msg
            IN /\ id \in SeqIds(msg.added)
               /\ id \notin SeqIds(msg.changed)
               /\ id \notin Range(msg.removed)
               /\ \A j \in DOMAIN msg.added :
                     (msg.added[j].id = id /\ id \in db.object_map) =>
                         msg.added[j] = info_factory(db, id)

C5_Witness ==
    \E i \in DOMAIN mh.flushes : \E id \in db.object_map :
        /\ mh.flushes[i].hist[id] = "ac"
        /\ info_factory(db, id) \in Range(mh.flushes[i].msg.added)
        /\ db.mem[id].b = 1

\* C6: a dispatcher tracker never has more than one flush queued, and the
\* changes of a burst are sent by that flush only, in one message.
C6_OneFlushQueued ==
    /\ mh.queue <= 1
    /\ ~mh.forced

\* C6 amended: a flush is queued for every buffered change, and a second one
\* only after on_object_added sent the buffers itself, which it does when
\* the id added is still buffered as removed.
C6_OneFlushUnlessForced ==
    /\ mh.queue > 1 => mh.forced
    /\ mh.changes_pending => mh.queue >= 1

C6_Witness ==
    /\ mh.queue = 1
    /\ ~mh.forced
    /\ Cardinality(mh.added \cup mh.changed \cup mh.removed) >= 2

\* C7: after stop-tracking was handled, the tracker sends no change message.
C7_NothingSentAfterStop ==
    mh.state = "stopped" => \A i \in DOMAIN mh.flushes : ~mh.flushes[i].sent

\* C7 for the changes made after stop-tracking: nothing is buffered for them
C7_NothingBufferedAfterStop ==
    [][mh.state = "stopped" =>
          /\ mh'.added = mh.added \/ mh'.added = {}
          /\ mh'.changed = mh.changed \/ mh'.changed = {}
          /\ mh'.removed = mh.removed \/ mh'.removed = {}
          /\ mh'.queue <= mh.queue]_vars

\* C2: after the scope has finished, the storage rows, the identity map and
\* the id sets of the trackers are what they are after the same objects were
\* inserted one by one.
C2_BulkEqualsIndividual ==
    gh.phase = "done" =>
        /\ db.rows = gh.ind.rows
        /\ db.object_map = gh.ind.object_map
        /\ \A t \in db.linked : db.cur[t] = gh.ind.cur[t]

\* C2 for the storage rows, the identity map and the tracker of the view
\* that has no join
C2_PlainBulkEqualsIndividual ==
    gh.phase = "done" =>
        /\ db.rows = gh.ind.rows
        /\ db.object_map = gh.ind.object_map
        /\ db.cur["t1"] = gh.ind.cur["t1"]

\* C12: when a torrent is started (from .torrent metadata, or from a magnet
\* link that gives the info-hash in base32 or in hex) and the session holds
\* an active torrent with the same info-hash, the engine is given no second
\* torrent for it, a DuplicateTorrent command naming an original with that
\* info-hash and the new dlid is sent, and no two torrents of the session
\* ever share an info-hash.
C12_DuplicateTorrentReported ==
    /\ \A i \in dl.torrents, j \in dl.torrents :
           dl.objs[i].hash = dl.objs[j].hash => i = j
    /\ \A k \in DOMAIN dl.tried :
           dl.tried[k].active # {} =>
               /\ dl.tried[k].obj \notin dl.torrents
               /\ dl.objs[dl.tried[k].obj].kind # "none"
                      => ~dl.objs[dl.tried[k].obj].torrent
               /\ \E c \in Range(dl.sent) :
                      /\ c.cmd = "DuplicateTorrent"
                      /\ c.duplicate = dl.tried[k].dlid
                      /\ c.original \in dl.tried[k].active

C12_Witness ==
    \E k \in DOMAIN dl.tried :
        /\ dl.tried[k].enc = "b32"
        /\ dl.tried[k].active # {}
        /\ dl.tried[k].dlid \notin dl.tried[k].active
        /\ dl.sent # << >>

\* C13: after any sequence of daemon commands at most one downloader per
\* dlid is registered or at work (holds a torrent of the engine or an HTTP
\* client).
C13_OneDownloaderPerDlid ==
    \A d \in Dlids :
        Cardinality({i \in Alive(dl) :
                        /\ dl.objs[i].dlid = d
                        /\ \/ dl._downloads[d] = i
                           \/ dl.objs[i].torrent
                           \/ dl.objs[i].client}) <= 1

\* C14 as stated: downloading goes only to paused, stopped, failed, finished
\* or offline; uploading is entered only from finished and only by
\* BitTorrent downloaders; uploading goes only to uploading-paused or
\* finished.
C14_StatedMachine ==
    \A t \in dl.trans :
        /\ t[2] = "downloading" =>
               t[3] \in {"paused", "stopped", "failed", "finished", "offline"}
        /\ t[3] = "uploading" => t[1] = "bt" /\ t[2] = "finished"
        /\ t[2] = "uploading" => t[3] \in {"uploading-paused", "finished"}

\* C14 (amended): a call changes a downloader's state from downloading only
\* to paused, stopped, failed, finished, offline or uploading; uploading is
\* entered only from downloading and only by BitTorrent downloaders; from
\* uploading the state goes to uploading-paused, finished, paused, stopped,
\* failed or offline, never back to downloading.
C14_StateMachine ==
    \A t \in dl.trans :
        /\ t[2] = "downloading" =>
               t[3] \in {"paused", "stopped", "failed", "finished", "offline",
                         "uploading"}
        /\ t[3] = "uploading" => t[1] = "bt" /\ t[2] = "downloading"
        /\ t[2] = "uploading" =>
               t[3] \in {"uploading-paused", "finished", "paused", "stopped",
                         "failed", "offline"}

C14_Witness ==
    /\ <<"bt", "downloading", "uploading">> \in dl.trans
    /\ \E i \in dl.torrents : dl.objs[i].state = "uploading"

C16_ResumeSanity ==
    \A k \in DOMAIN dl.started :
        dl.started[k].asked =>
            /\ dl.started[k].size_before > dl.started[k].currentSize =>
                   /\ dl.started[k].resume
                   /\ dl.started[k].size = dl.started[k].currentSize
                   /\ dl.objs[dl.started[k].obj].file
                          = dl.started[k].currentSize
            /\ dl.started[k].size_before < dl.started[k].currentSize =>
                   /\ ~dl.started[k].resume
                   /\ dl.objs[dl.started[k].obj].file = 0

C16_Witness ==
    \E k \in DOMAIN dl.started :
        /\ dl.started[k].asked
        /\ dl.started[k].currentSize > 0
        /\ dl.started[k].size_before > dl.started[k].currentSize
        /\ dl.started[k].resume

\* C18: while an HTTP downloader is downloading exactly one update_stats
\* timeout is pending for it, and a timeout that fires for a downloader that
\* is not downloading schedules no other.
C18_OnePollPending ==
    /\ \A i \in Alive(dl) :
           (dl.objs[i].kind = "http" /\ dl.objs[i].state = "downloading"
                /\ dl.objs[i].client) => dl.objs[i].polls = 1
    /\ (dl.fired.obj # 0 /\ dl.objs[dl.fired.obj].kind # "none"
            /\ dl.objs[dl.fired.obj].state # "downloading")
           => dl.objs[dl.fired.obj].polls = dl.fired.polls - 1

\* what holds of C18: a timeout that fires for a downloader that is paused,
\* stopped, finished, failed or offline schedules no other
C18_NoPollAfterDownloading ==
    (dl.fired.obj # 0 /\ dl.objs[dl.fired.obj].kind # "none"
         /\ dl.objs[dl.fired.obj].state # "downloading")
        => dl.objs[dl.fired.obj].polls = dl.fired.polls - 1

\* C17 as stated: fast-resume writes are given up exactly when the last 5
\* attempts in a row have failed; a successful write starts the count again.
C17_FiveInARow ==
    \A k \in DOMAIN dl.frd :
        dl.frd[k].did = "gate" <=> dl.frd[k].row >= 5

\* C17 (amended): fast-resume writes are given up, for every torrent and
\* for the rest of the session, exactly when 5 attempts of the session have
\* failed in total; successful writes in between do not start the count
\* again.
C17_FiveInTotal ==
    /\ dl.frd_fails <= 5
    /\ dl.FRD_PROBLEMS = dl.frd_fails
    /\ \A k \in DOMAIN dl.frd :
           dl.frd[k].did = "gate" <=> dl.frd[k].fails >= 5

C17_Witness ==
    \E k \in DOMAIN dl.frd :
        /\ dl.frd[k].did = "gate"
        /\ dl.frd[k].fails = 5
        /\ dl.frd[k].row < 5

\* C19: when a statement fails with an operational error and the user
\* retries, the rerun that succeeds executes every statement buffered for
\* the transaction, the failed one included, once each and in the order they
\* were first executed, in a new transaction, before the call returns: the
\* transaction of the connection then holds exactly the buffered statements.
C19_ReplayAllInOrder ==
    ~ls.quitting =>
        /\ ls.in_tx = (ls.buf # << >>)
        /\ ls.tx = (IF ls.in_tx THEN ls.buf ELSE << >>)
        /\ ls.reruns > 0 =>
               /\ ls.ran = ls.buf \o ls.select
               /\ ls.failed = <<ls.ran[Len(ls.ran)]>>

C19_Witness ==
    /\ ~ls.quitting
    /\ ls.reruns = 2
    /\ Len(ls.buf) = MaxStatements
    /\ ls.failed = <<ls.buf[Len(ls.buf)]>>
    /\ ls.buf[1] # ls.buf[2]
    /\ ls.tx = ls.buf

\* C20: when a schema upgrade fails at any step (the conversion of an
\* old-style database included), the database file is what it was before
\* the upgrade began, and a backup file holding that database has been
\* produced.
C20_OriginalUntouched ==
    ls.result \in {"UpgradeError", "UpgradeErrorSendCrashReport"} =>
        /\ ls.orig = ls.before
        /\ \/ ls.failed = ls.before
           \/ \E b \in ls.backups : b.file = ls.before

\* C21: a command of the frontend that names an id whose object is gone (a
\* feed, site, playlist, folder or item id, or an id inside a reorder
\* message) is logged and does nothing: no exception leaves the handler and
\* no domain object is changed.
C21_MissingIdIsNoOp ==
    app.call.missing =>
        /\ app.call.raised = "none"
        /\ ~app.call.changed

\* C22: a playlist reorder is applied only when the proposed ids are a
\* permutation of the playlist's items; a proposal with missing, extra or
\* repeated ids is logged and leaves the playlist as it was.
C22_OnlyPermutationsApplied ==
    ~IsPermutation(app.call.item_ids, app.call.before) =>
        /\ ~app.call.reordered
        /\ app.items = app.call.before
        /\ app.call.warned

\* C23 as stated: every request made of the updater is answered by exactly
\* one path_processed, so that when nothing is in progress no request is
\* left without its notice.
C23_EveryRequestNotified ==
    app.in_progress = {} =>
        \A i \in MovieIds : app.due[i] = 0 /\ ~app.unanswered[i]

\* C23 amended: every request the updater takes up (it is not shut down and
\* the item is not already in progress) is answered by exactly one
\* path_processed, at once when the item is skipped and when the worker's
\* result or error arrives otherwise, and every item in progress does get
\* its answer.
C23_TakenUpNotifiedOnce ==
    /\ [](\A i \in MovieIds :
              app.due[i] = IF i \in app.in_progress THEN 1 ELSE 0)
    /\ \A i \in MovieIds : (i \in app.in_progress) ~> (i \notin app.in_progress)

C23_Witness ==
    /\ app.in_progress = {}
    /\ \E i, j \in MovieIds :
           /\ app.items[i].mdp_state = "RAN"
           /\ app.items[j].mdp_state = "FAILED"
    /\ \A i \in MovieIds : app.due[i] = 0 /\ ~app.unanswered[i]

\* C24: arguments passed to parse_command_line_args before startup() are
\* not acted on but kept, in the order they arrived; startup() acts on all
\* of them in that order, each once, and after it every argument is acted
\* on in the call that passes it.
C24_BufferedThenReplayed ==
    IF app._started_up
    THEN /\ app._command_line_args = << >>
         /\ Len(app.acted) = Len(app.arrived)
         /\ \A k \in 1..Len(app.acted) : app.acted[k].arg.n = k
    ELSE /\ app.acted = << >>
         /\ app._command_line_args = app.arrived

C24_Witness ==
    /\ app._started_up
    /\ Len(app.acted) = MaxArgs
    /\ app.acted[1].action = "add_torrent"
    /\ app.acted[2].action = "add_video"
    /\ app.acted[MaxArgs].action = "add_download"

\* the action the table names for an argument: the scheme decides first,
\* then, for a file that exists, the extension in lower case
C25_Predicted(arg) ==
    IF arg.scheme \in {"miro:", "democracy:"} THEN {"add_subscription_url"}
    ELSE IF arg.scheme \in {"http:", "https:", "feed:", "feeds:", "magnet:"}
    THEN {"add_download"}
    ELSE IF ~arg.exists THEN {"warning"}
    ELSE IF arg.ext \in {".torrent", ".tor", ".TORRENT"}
    THEN {"add_torrent", "Invalid Torrent", "File Error"}
    ELSE IF arg.ext \in {".rss", ".rdf", ".atom", ".ato"}
    THEN {"add_feed_from_file"}
    ELSE IF arg.ext \in {".miro", ".democracy", ".dem", ".opml"}
    THEN {"import_subscriptions"}
    ELSE {"add_video"}

C26_OneItemPerPath ==
    \A j, k \in 1..Len(app.items) :
        app.items[j].path = app.items[k].path => j = k

\* C27: inside an open outermost scope no view refresh has been made, and
\* inside an outermost "adding" scope no tab-added signal either; when the
\* outermost scope has exited, exactly one refresh was made, as the last
\* thing, and for an "adding" scope exactly one tab-added signal, just
\* before it, however many add() calls and nested scopes it held.
C27_OneSignalOneRefresh ==
    LET log == app.log
        Count(e) == Cardinality({k \in 1..Len(log) : log[k] = e})
        scoped == log # << >> /\ log[1] \in {"adding", "removing"}
    IN  /\ app.scopes # << >> => Count("model_changed") = 0
        /\ (app.scopes # << >> /\ app.scopes[1] = "adding")
               => Count("tab-added") = 0
        /\ (scoped /\ app.scopes = << >>) =>
               /\ Count("model_changed") = 1
               /\ log[Len(log)] = "model_changed"
               /\ log[1] = "adding" =>
                      /\ Count("tab-added") = 1
                      /\ log[Len(log) - 1] = "tab-added"

C27_Witness ==
    LET log == app.log
    IN  /\ app.scopes = << >>
        /\ Len(log) = MaxLog
        /\ log[1] = "adding"
        /\ Cardinality({k \in 1..Len(log) : log[k] = "append"}) >= 2
        /\ Cardinality({k \in 1..Len(log) : log[k] = "adding"}) >= 3

\* C28 as stated: an auto tab is in the list exactly when its count is
\* non-zero or it is selected.
C28_ShownIffCountedOrSelected ==
    \A name \in AutoTabs :
        name \in app.iter_map
            <=> (app.counts[name] > 0 \/ name \in app.selected_ids)

\* C28: an auto tab with a non-zero count is in the list, and so is a
\* selected one; a tab with zero count that is not selected is in the list
\* only if blink_tab showed it and the selection has not changed since, and
\* after every selection change no such tab is left.
C28_ShownWhileCountedSelectedOrBlinked ==
    \A name \in AutoTabs :
        /\ app.counts[name] > 0 => name \in app.iter_map
        /\ name \in app.selected_ids => name \in app.iter_map
        /\ (name \in app.iter_map /\ app.counts[name] = 0
                /\ name \notin app.selected_ids) =>
               /\ name \in app.blinked
               /\ app.call \notin {"on_deselected", "on_selection_changed"}

\* a selected tab whose count dropped to zero is still shown
C28_Witness ==
    /\ app.call = "update_auto_tab_count"
    /\ app.selected_ids = {"downloading"}
    /\ app.counts["downloading"] = 0
    /\ "downloading" \in app.iter_map
    /\ "downloading" \notin app.blinked

C30_ThreadJoinedOnDisable ==
    app.call = "disable_sharing" =>
        \A t \in 1..Len(app.threads) : app.threads[t] = "terminated"

\* C31: for each share identity the notifications sent to the frontend
\* alternate between added and removed, starting with added.
C31_AddedRemovedAlternate ==
    \A share_id \in ShareIdents :
        LET mine == SelectSeq(app.sent, LAMBDA n : n.share_id = share_id)
        IN  \A k \in 1..Len(mine) :
                mine[k].kind = IF k % 2 = 1 THEN "added" ELSE "removed"

\* C32: for every tracker whose first connection failed, the tracker is not
\* in the tracker table and exactly one connect-failed notification was
\* sent for it, whatever eject commands came in between.
C32_FailedConnectEjectsAndNotifies ==
    \A impl \in 1..Len(app.impls) :
        app.impls[impl].connect = "failed" =>
            /\ app.trackers[app.impls[impl].id] # impl
            /\ Cardinality({k \in 1..Len(app.sent) :
                   /\ app.sent[k].kind = "SharingConnectFailed"
                   /\ app.sent[k].impl = impl}) = 1

\* C33: after every handled notification items and daapitems describe the
\* current shared items, daap_playlists the current playlists with their
\* item counts, and playlist_item_map each playlist's current member ids.
C33_ProjectionsInSync ==
    /\ app.items = app.lib.items
    /\ app.daapitems = {daap_item_fixup(x) : x \in app.lib.items}
    /\ app.daap_playlists =
           {[id |-> x.id, mimc |-> Cardinality(x.item_ids)] :
                x \in app.lib.playlists}
    /\ app.playlist_item_map = app.lib.playlists

C35_CrashRestartsOnceAndRedelivers ==
    /\ [](/\ app.restarts <= app.kills
          /\ app.alive => app.restarts = app.kills
          /\ app.pid = 1 + app.restarts)
    /\ [][/\ Len(app'.results) >= Len(app.results)
          /\ SubSeq(app'.results, 1, Len(app.results)) = app.results]_vars
    /\ \A k \in 1..(SlowCount + 1) :
           (Len(app.sent) >= k) ~>
               (\E j \in 1..Len(app.results) : app.results[j] = k)

C35_Witness ==
    /\ app.kills = 1
    /\ app.restarts = 1
    /\ app.pid = 2
    /\ \E k \in app.interrupted :
           /\ app.sent[k].task.cls = "FeedparserTask"
           /\ \E j \in 1..Len(app.results) : app.results[j] = k

\* C36: in every change message the ids of the added list are not known to
\* the frontend and occur once each, and the ids of the changed and removed
\* lists are known to it.
C36_MessagesMatchFrontend ==
    \A n \in 1..Len(app.seen) :
        LET ids == app.seen[n].ids
            known == app.seen[n].known
        IN  /\ \A k \in 1..Len(ids.added) : ids.added[k] \notin known
            /\ \A j, k \in 1..Len(ids.added) :
                   ids.added[j] = ids.added[k] => j = k
            /\ \A k \in 1..Len(ids.changed) : ids.changed[k] \in known
            /\ \A k \in 1..Len(ids.removed) : ids.removed[k] \in known

\* C37: a downloader that is paused or stopped becomes downloading only in
\* a step of an explicit start command; a retry timeout never restarts it.
C37_OfflineUntilStarted ==
    [][(\E i \in Alive(dl) :
           /\ dl.objs[i].state \in {"paused", "stopped"}
           /\ dl'.objs[i].kind # "none"
           /\ dl'.objs[i].state = "downloading")
       => StartDownload]_vars

\* C39: when the attempt of a downloader has received the response headers,
\* its next transient failure is retried after 60 seconds: the retry
\* counter was reset when the headers arrived.
C39_HeadersResetRetryCount ==
    [][\A i \in Alive(dl) :
           (/\ dl.objs[i].client
            /\ dl.objs[i].headers
            /\ dl'.objs[i].kind # "none"
            /\ dl'.objs[i].state = "offline"
            /\ dl'.objs[i].retryDC)
           => dl'.objs[i].retryTime = RETRY_TIMES[1]]_vars

\* C38: when BulkSQLManager.finish() has returned or raised, the manager is
\* idle: not active, nothing buffered to insert or remove, and no id
\* reported by will_insert or will_remove.
C38_IdleAfterFinish ==
    gh.op = "finish" =>
        /\ ~db.active
        /\ DictValues(db.to_insert) = {}
        /\ DictValues(db.to_remove) = {}
        /\ \A id \in Ids : ~will_insert(db, id) /\ ~will_remove(db, id)

\* C40: every quit written to the control socket ends the server thread it
\* was written for and no other: once every command written has been read,
\* the server threads still running are the thread of the current sharing
\* session when there is one, and none otherwise.
C40_QuitEndsItsThread ==
    app.pipe = << >> =>
        {t \in 1..Len(app.threads) : app.threads[t] = "running"}
            = IF app.thread THEN {Len(app.threads)} ELSE {}

====
